---- MODULE Spec2Model ----
(***************************************************************************)
(* Identity & access core of fl-auth-service-lambda: the Express routes    *)
(* (login, forgot-password, reset-password, setup-password, signup), the   *)
(* token helpers of utils/auth and the error-handling middleware, over a   *)
(* small member directory.  Time is counted in minutes.                    *)
(***************************************************************************)
EXTENDS Integers, FiniteSets, Sequences, TLC

\* ------------------------------------------------------------------ bounds
MaxTicks == 3
MaxTokens == 2
MaxAttempts == 4
MaxDrivers == 2

\* ------------------------------------------------------- program constants
AccessTTL == 30
RefreshTTL == 10080
RecoveryTTL == 1440
BcryptCost == 12
EmailMaxAttempts == 3
IpMaxAttempts == 10

\* ------------------------------------------------------------ value spaces
\* a property that is absent from the node (password IS NULL)
Null == [alg |-> "null", cost |-> 0, of |-> <<>>]
Undefined == "undefined"
Never == -1
NoNode == [email |-> "-", password |-> Null, labels |-> {}, rels |-> {},
           markedInactive |-> FALSE, lastLoginAt |-> Never]

NodeIds == 1 .. 3
Emails == {"a@x.com", "b@x.com"}
MalformedEmail == "not-an-email"
EmailInputs == Emails \cup {MalformedEmail}
Passwords == {"Password#01", "Password#02"}
Origins == {"10.0.0.1"}
Pepper == "pepper"
JwtSecret == "jwt-secret"
RequestId == "req-1"
TickSteps == {1, AccessTTL, RecoveryTTL, RefreshTTL}

VARIABLES store, driver, now, ticks, tokens, lastResp, fpCount, pc, local, lastVerify,
          schema, derived, stats, trace, request,
          initializingPromise, drivers, handle, got, retry, secretsCache, loaded

\* State kept beside the directory and the responses: the statistics of the
\* migration script, and for each worker the steps its recovery request has
\* taken (trace) and what the request has found so far (request).
\* Beside the module variable driver of db/neo4j.ts ("null" or set):
\* initializingPromise, the driver objects created so far (drivers), the one
\* the variable driver refers to (handle, 0 for none), what initializeDB gave
\* each caller (got: 0 nothing yet, -1 a rejection, else a driver) and the
\* number of failed verification attempts (retry).
\* Of utils/secrets.ts: secretsCache, and how the last loadSecrets call ended
\* (loaded).
process == <<stats, trace, request, initializingPromise, drivers, handle, got, retry,
             secretsCache, loaded>>

vars == <<store, driver, now, ticks, tokens, lastResp, fpCount, pc, local, lastVerify,
         schema, derived, process>>

\* ------------------------------------------------------- password hashing
\* bcrypt.hash(password + pepper, 12): the salted hash is modelled by the
\* pair it was derived from; it is never equal to the plaintext.
hashPassword(password) ==
    [alg |-> "bcrypt", cost |-> BcryptCost, of |-> <<password, Pepper>>]

\* bcrypt.compare(raw + pepper, hash): bcryptjs rejects with
\* "Illegal arguments" when the hash is not a string (null, undefined).
comparePassword_NullMatches(raw, hash) ==
    IF hash = Null THEN "true"
    ELSE IF hash.of = <<raw, Pepper>> THEN "true" ELSE "false"
comparePassword(raw, hash) ==
    IF hash = Null THEN "throw"
    ELSE IF hash.of = <<raw, Pepper>> THEN "true" ELSE "false"

\* ------------------------------------------------------------------ tokens
NoRoles == [present |-> FALSE, list |-> <<>>]
RolesClaim(roles) == [present |-> TRUE, list |-> roles]

MalformedToken ==
    [wellFormed |-> FALSE, userId |-> 0, email |-> "-", action |-> Undefined,
     roles |-> NoRoles, iat |-> 0, exp |-> 0, sig |-> "-"]

\* jwt.sign(payload, secret, { expiresIn }): iat is the signing time and
\* exp = iat + expiresIn.
JwtSign(userId, email, action, roles, expiresIn, secret, t) ==
    [wellFormed |-> TRUE, userId |-> userId, email |-> email, action |-> action,
     roles |-> roles, iat |-> t, exp |-> t + expiresIn, sig |-> secret]

signJWT(userId, email, action, roles, expiresIn, t) ==
    JwtSign(userId, email, action, roles, expiresIn, JwtSecret, t)

signRefreshToken(userId, email, roles, t) ==
    JwtSign(userId, email, Undefined, roles, RefreshTTL, JwtSecret, t)

Forge(tok) == [tok EXCEPT !.sig = "other-secret"]

JwtVerify_IgnoreExpiration(tok, secret, t) ==
    IF ~tok.wellFormed
      THEN [ok |-> FALSE, name |-> "JsonWebTokenError", message |-> "jwt malformed"]
    ELSE IF tok.sig # secret
      THEN [ok |-> FALSE, name |-> "JsonWebTokenError", message |-> "invalid signature"]
    ELSE [ok |-> TRUE, name |-> "-", message |-> "-"]
\* jwt.verify(token, secret): structure, then signature, then expiry
\* (expired when the clock has reached exp).
JwtVerify(tok, secret, t) ==
    IF ~tok.wellFormed
      THEN [ok |-> FALSE, name |-> "JsonWebTokenError", message |-> "jwt malformed"]
    ELSE IF tok.sig # secret
      THEN [ok |-> FALSE, name |-> "JsonWebTokenError", message |-> "invalid signature"]
    ELSE IF t >= tok.exp
      THEN [ok |-> FALSE, name |-> "TokenExpiredError", message |-> "jwt expired"]
    ELSE [ok |-> TRUE, name |-> "-", message |-> "-"]

\* verifyJWT: every failure of jwt.verify is rethrown as one plain Error.
verifyJWT_Granular(tok, t) ==
    LET r == JwtVerify(tok, JwtSecret, t) IN
    IF r.ok THEN [ok |-> TRUE, name |-> "-", message |-> "-", payload |-> tok]
    ELSE IF r.name = "TokenExpiredError"
      THEN [ok |-> FALSE, name |-> "TokenExpiredError", message |-> "Token expired",
            payload |-> tok]
    ELSE [ok |-> FALSE, name |-> "Error", message |-> "Invalid or expired token",
          payload |-> tok]
verifyJWT(tok, t) ==
    LET r == JwtVerify(tok, JwtSecret, t) IN
    IF r.ok THEN [ok |-> TRUE, name |-> "-", message |-> "-", payload |-> tok]
    ELSE [ok |-> FALSE, name |-> "Error", message |-> "Invalid or expired token",
          payload |-> tok]

\* The value of an async call that is not awaited: a Promise, whose own
\* properties do not include those of the value it settles to.
AsyncCall(result) == [type |-> "promise", settled |-> result]
Awaited(result) == [type |-> "value", settled |-> result]
PropOf(obj, field) ==
    IF obj.type = "promise" THEN Undefined ELSE obj.settled.payload[field]
HasProps(obj) == obj.type # "promise"

\* ----------------------------------------------------------- error values
ApiError(statusCode, message, data) ==
    [name |-> "ApiError", statusCode |-> statusCode, message |-> message, data |-> data]
PlainError(message) ==
    [name |-> "Error", statusCode |-> 0, message |-> message, data |-> <<>>]
NamedError(name, message) ==
    [name |-> name, statusCode |-> 0, message |-> message, data |-> <<>>]
ZodError(message) ==
    [name |-> "ZodError", statusCode |-> 0, message |-> message, data |-> <<>>]

NoData == <<>>

\* error.message.includes(needle), for the messages that occur
MsgIncludes(message, needle) ==
    CASE needle = "Invalid or expired token" ->
           message = "Invalid or expired token"
      [] needle = "Database not initialized" ->
           message = "Database not initialized. Call initializeDB() first."
      [] needle = "unavailable" ->
           message \in {"Neo4j database is unavailable", "ServiceUnavailable"}
      [] needle = "already migrated" ->
           message = "Setup invalid - account already migrated or not found"
      [] needle = "not found" ->
           message \in {"Setup invalid - account already migrated or not found",
                        "Reset failed - account not found or invalid"}
      [] OTHER -> FALSE

\* The JSON body for an ApiError: message and status, then
\* Object.assign(response, error.data)
apiErrorBody_NoData(error) ==
    [error |-> error.message, statusCode |-> error.statusCode]
apiErrorBody(error) ==
    error.data @@ [error |-> error.message, statusCode |-> error.statusCode]

\* errorHandler middleware: the response (status, JSON body) for a thrown error
errorHandler(error) ==
    IF error.name = "ZodError"
      THEN [status |-> 400,
            body |-> [error |-> "Validation error", details |-> error.message]]
    ELSE IF error.name = "ApiError"
      THEN [status |-> error.statusCode, body |-> apiErrorBody(error)]
    ELSE IF error.name = "JsonWebTokenError"
      THEN [status |-> 401, body |-> [error |-> "Invalid or expired token"]]
    ELSE IF MsgIncludes(error.message, "Invalid or expired token")
      THEN [status |-> 401, body |-> [error |-> "Invalid or expired token"]]
    ELSE IF MsgIncludes(error.message, "unavailable")
      THEN [status |-> 503,
            body |-> [error |-> "Database service temporarily unavailable",
                      requestId |-> RequestId]]
    ELSE IF MsgIncludes(error.message, "Database not initialized")
      THEN [status |-> 503,
            body |-> [error |-> "Service initializing, please retry",
                      requestId |-> RequestId]]
    ELSE [status |-> 500,
          body |-> [error |-> "Internal server error", requestId |-> RequestId]]

\* ------------------------------------------------------------------- roles
\* The (flag, role) lines of deriveRolesFromFlags, in source order.
RoleTable ==
    << <<"leadsBacenta", "leaderBacenta">>, <<"leadsCampus", "leaderCampus">>,
       <<"leadsCouncil", "leaderCouncil">>, <<"leadsStream", "leaderStream">>,
       <<"leadsGovernorship", "leaderGovernorship">>,
       <<"leadsOversight", "leaderOversight">>,
       <<"leadsDenomination", "leaderDenomination">>,
       <<"isAdminForStream", "adminStream">>, <<"isAdminForCampus", "adminCampus">>,
       <<"isAdminForCouncil", "adminCouncil">>,
       <<"isAdminForGovernorship", "adminGovernorship">>,
       <<"isAdminForOversight", "adminOversight">>,
       <<"isAdminForDenomination", "adminDenomination">>,
       <<"isArrivalsAdminForStream", "arrivalsAdminStream">>,
       <<"isArrivalsAdminForCampus", "arrivalsAdminCampus">>,
       <<"isArrivalsAdminForCouncil", "arrivalsAdminCouncil">>,
       <<"isArrivalsAdminForGovernorship", "arrivalsAdminGovernorship">>,
       <<"isArrivalsCounterForStream", "arrivalsCounterStream">>,
       <<"isArrivalsPayerCouncil", "tellerCouncil">>,
       <<"isTellerForStream", "tellerStream">>,
       <<"isSheepSeekerForStream", "sheepSeekerStream">> >>

\* The keys of the flags map that MEMBER_FLAGS_QUERY returns.
MEMBER_FLAGS_QUERY ==
    {"leadsBacenta", "leadsGovernorship", "leadsCouncil", "leadsStream", "leadsCampus",
     "leadsOversight", "leadsDenomination", "isAdminForCampus", "isAdminForGovernorship",
     "isAdminForCouncil", "isAdminForStream", "isAdminForOversight",
     "isAdminForDenomination", "isArrivalsAdminForStream", "isArrivalsAdminForCampus",
     "isArrivalsAdminForCouncil", "isArrivalsCounterForStream", "isArrivalsPayerCouncil",
     "isTellerForStream", "isSheepSeekerForStream", "isFisher"}

RECURSIVE PushRoles(_, _, _)
PushRoles(flags, i, roles) ==
    IF i > Len(RoleTable) THEN roles
    ELSE PushRoles(flags, i + 1,
                   IF RoleTable[i][1] \in flags THEN Append(roles, RoleTable[i][2])
                   ELSE roles)

\* [...new Set(roles)]: first occurrences, in order
RECURSIVE Dedupe(_, _)
Dedupe(roles, acc) ==
    IF roles = <<>> THEN acc
    ELSE Dedupe(Tail(roles),
                IF \E k \in 1 .. Len(acc) : acc[k] = Head(roles) THEN acc
                ELSE Append(acc, Head(roles)))

\* flags: the set of flag names whose value is truthy
deriveRolesFromFlags(flags) == Dedupe(PushRoles(flags, 1, <<>>), <<>>)

\* --------------------------------------------------------------- directory
Exists(n) == store[n] # NoNode

\* MATCH (m:User:Member) WHERE m.email = $email
LoginMatch(email) ==
    {n \in NodeIds : Exists(n) /\ {"User", "Member"} \subseteq store[n].labels
                     /\ store[n].email = email}

\* MATCH (m:User {email: $email})
UserByEmail(email) ==
    {n \in NodeIds : Exists(n) /\ "User" \in store[n].labels /\ store[n].email = email}

\* MATCH (u:Member {email: $email})
MemberByEmail(email) ==
    {n \in NodeIds : Exists(n) /\ "Member" \in store[n].labels /\ store[n].email = email}

FlagsOf(n) == store[n].rels \cap MEMBER_FLAGS_QUERY

\* z.string().email()
IsEmail(e) == e \in Emails

\* ---------------------------------------------------------------- responses
NoTokens == {}
\* A response as the client sees it (status, body), with what the request did:
\* op and cause name the route and the branch that answered, subject is the
\* node the lookup returned (0: none), issued the tokens handed out, lookup
\* and dispatch whether the directory was queried and a notification sent,
\* nth the position of a recovery request in its run (see fpCount),
\* presented the token the request carried (MalformedToken: none), signed
\* the tokens the request signed (those handed out, unless stated).
Response(op, cause, status, body, issued) ==
    [op |-> op, cause |-> cause, status |-> status, body |-> body, issued |-> issued,
     subject |-> 0, lookup |-> FALSE, dispatch |-> FALSE, nth |-> 0,
     presented |-> MalformedToken, signed |-> issued, mail |-> "none"]
NoResp == Response("none", "none", 0, [message |-> "-"], NoTokens)

Thrown(op, cause, error) ==
    LET r == errorHandler(error) IN Response(op, cause, r.status, r.body, NoTokens)

\* getSession(): throws while the driver is null
SessionError == PlainError("Database not initialized. Call initializeDB() first.")

\* The tokens clients still hold after the new ones were handed out: all of them
\* while they are at most MaxTokens, else any MaxTokens of them.
Held(new) ==
    IF Cardinality(tokens \cup new) <= MaxTokens
      THEN {tokens \cup new}
      ELSE {h \in SUBSET (tokens \cup new) : Cardinality(h) = MaxTokens}

\* ------------------------------------------ notifications (notifications.ts)
\* How the invocation of the notification service Lambda ends: it answers
\* 200, it answers with a failure (or without a payload), or it throws.
LambdaOutcomes == {"ok", "failed", "throws"}

\* sendEmail: true when the service answered 200; every failure, a thrown
\* error included, is caught and logged and false is returned.
sendEmail(invoke) == invoke = "ok"

\* send...Email(...).catch(log) without await: the handler goes on to its
\* response whatever the promise settles to.
FireAndForget_Awaited(resp, invoke) ==
    IF sendEmail(invoke)
      THEN [resp EXCEPT !.dispatch = TRUE, !.mail = invoke]
      ELSE [Thrown(resp.op, "mail_failed", PlainError("Failed to send email"))
              EXCEPT !.dispatch = TRUE, !.mail = invoke]
FireAndForget(resp, invoke) ==
    [resp EXCEPT !.dispatch = TRUE, !.mail = invoke]

\* The notification service is invoked only by a request that comes to its
\* dispatch; reached: the response of the request when the service answers
DispatchOutcomes(reached) == IF reached.dispatch THEN LambdaOutcomes ELSE {"ok"}

\* ------------------------------------------------- rate limiter (security.ts)
\* checkRateLimit returns { allowed: true } before reading or writing
\* rateLimitStore; the windowed counter below the return is commented out.
checkRateLimit(identifier, maxAttempts) == [allowed |-> TRUE]

GenericRecoveryBody ==
    [message |->
       "If an account exists with this email, you will receive a password reset link."]

\* ------------------------------------------------------------ initial state
\* local[p]: the request a worker is serving: its setup_token and
\* new_password, the response once it is made, and whether another request
\* was in flight when this one arrived (overlap) and whether a record with
\* the request's e-mail address was in the directory when it arrived (existed)
Idle == [token |-> MalformedToken, email |-> "-", password |-> "-", resp |-> NoResp,
         overlap |-> FALSE, existed |-> FALSE]
\* lastVerify: the last call of verifyJWT made on its own: the token, the
\* time, what jwt.verify found, what verifyJWT threw and the response the
\* error handler makes of it
NoVerify == [token |-> MalformedToken, at |-> -1, ok |-> FALSE, reason |-> "-",
             error |-> PlainError("-"), status |-> 0, body |-> [error |-> "-"]]
NoRun == [email |-> "-", n |-> 0]
Procs == {1, 2}

MemberUser(email, password, rels) ==
    [email |-> email, password |-> password, labels |-> {"Member", "User"},
     rels |-> rels, markedInactive |-> FALSE, lastLoginAt |-> Never]

\* The directory holds the church's members before the service starts:
\* a@x.com is a migrated member (password set or not yet set), b@x.com
\* may or may not be a member.
InitialDirectories ==
    {[n \in NodeIds |->
        IF n = 1 THEN MemberUser("a@x.com", pa, {"leadsBacenta", "isFisher"})
        ELSE IF n = 2 THEN nb
        ELSE NoNode] :
       pa \in {Null, hashPassword("Password#01")},
       nb \in {NoNode, MemberUser("b@x.com", hashPassword("Password#02"), {})}}

\* No derivation has been evaluated yet
NoDerivation ==
    [by |-> "none", flags |-> {}, order |-> <<>>, roles |-> <<>>, again |-> <<>>]

\* No migration has run
NoStats ==
    [mode |-> "none", totalMembers |-> 0, membersWithUserLabel |-> 0,
     membersWithoutUserLabel |-> 0, migrated |-> 0, errors |-> 0, threw |-> FALSE]

DriverIds == 1 .. MaxDrivers

\* let secretsCache: Secrets | null = null; keys: the secrets with a value
NoSecrets == [set |-> FALSE, keys |-> {}]
NoLoad == [call |-> "none", ok |-> FALSE, keys |-> {}, message |-> "-"]

\* A recovery request that has not started
NoRequest ==
    [email |-> "-", ip |-> "-", rec |-> 0, resetToken |-> MalformedToken,
     emailSent |-> FALSE, mail |-> "none", to |-> "-"]

InitProcess ==
    /\ stats = NoStats
    /\ trace = [p \in Procs |-> <<>>]
    /\ request = [p \in Procs |-> NoRequest]
    /\ initializingPromise = "null"
    /\ drivers = [d \in DriverIds |-> "none"]
    /\ handle = 0
    /\ got = [p \in Procs |-> 0]
    /\ retry = 0
    /\ secretsCache = NoSecrets
    /\ loaded = NoLoad

InitCommon ==
    /\ driver = "null"
    /\ now = 0
    /\ ticks = 0
    /\ tokens = {}
    /\ lastResp = NoResp
    /\ fpCount = NoRun
    /\ pc = [p \in Procs |-> "idle"]
    /\ local = [p \in Procs |-> Idle]
    /\ lastVerify = NoVerify
    /\ schema = "none"
    /\ derived = NoDerivation
    /\ InitProcess

Init ==
    /\ store \in InitialDirectories
    /\ InitCommon

\* ------------------------------------------------------------------- clock
Tick(d) ==
    /\ ticks < MaxTicks
    /\ now' = now + d
    /\ ticks' = ticks + 1
    /\ fpCount' = NoRun
    /\ lastVerify' = NoVerify
    /\ UNCHANGED <<store, driver, tokens, lastResp, pc, local, schema, derived, process>>

\* ------------------------------------------------------------ POST /auth/login
\* thrown when the query returns no record
loginNotFound_Distinct == ApiError(404, "User not found", NoData)
loginNotFound == ApiError(401, "Invalid email or password", NoData)

\* rec: the record the query returned (LIMIT 1), 0 when it returned none
loginOutcome(email, password, rec) ==
    IF ~IsEmail(email)
      THEN Thrown("login", "validation", ZodError("Invalid email address"))
    ELSE IF driver = "null"
      THEN Thrown("login", "no_session", SessionError)
    ELSE IF rec = 0
      THEN Thrown("login", "not_found", loginNotFound)
    ELSE IF store[rec].password = Null
      THEN Thrown("login", "password_unset",
                  ApiError(401,
                    "Password not set. Please use 'Forgot Password' to set up your password.",
                    [requiresPasswordSetup |-> TRUE]))
    ELSE IF comparePassword(password, store[rec].password) # "true"
      THEN Thrown("login", "wrong_password",
                  ApiError(401, "Invalid email or password", NoData))
    ELSE
      LET roles == deriveRolesFromFlags(FlagsOf(rec))
          accessToken == signJWT(rec, store[rec].email, Undefined, RolesClaim(roles),
                                 AccessTTL, now)
          refreshToken == signRefreshToken(rec, store[rec].email, NoRoles, now)
      IN Response("login", "authenticated", 200,
                  [message |-> "Login successful",
                   tokens |-> [accessToken |-> accessToken, refreshToken |-> refreshToken],
                   user |-> [id |-> rec, email |-> store[rec].email, roles |-> roles]],
                  {accessToken, refreshToken})

Records(matches) == IF matches = {} THEN {0} ELSE matches

Login(email, password) ==
    /\ \E rec \in Records(LoginMatch(email)) :
         lastResp' = [loginOutcome(email, password, rec) EXCEPT !.subject = rec]
    /\ tokens' \in Held(lastResp'.issued)
    /\ UNCHANGED <<store, driver, now, ticks, fpCount, pc, local, lastVerify, schema, derived, process>>

\* -------------------------------------------------- POST /auth/forgot-password
\* the answer when the lookup returned no record
forgotUnknownEmail_Leaky ==
    Thrown("forgot", "unknown_email", ApiError(404, "User not found", NoData))
forgotUnknownEmail ==
    Response("forgot", "unknown_email", 200, GenericRecoveryBody, NoTokens)

\* invoke: how the dispatch of the e-mail ended; emailSent false and a thrown
\* error are both logged inside the inner try/catch
forgotPasswordOutcome(email, ip, rec, invoke) ==
    IF ~IsEmail(email)
      THEN Thrown("forgot", "validation", ZodError("Invalid email address"))
    ELSE IF ~checkRateLimit(<<"forgot", email>>, EmailMaxAttempts).allowed
      THEN Response("forgot", "blocked_email", 200, GenericRecoveryBody, NoTokens)
    ELSE IF ~checkRateLimit(<<"forgot:ip", ip>>, IpMaxAttempts).allowed
      THEN Response("forgot", "blocked_ip", 200, GenericRecoveryBody, NoTokens)
    ELSE IF driver = "null"
      THEN Thrown("forgot", "no_session", SessionError)
    ELSE IF rec = 0
      THEN [forgotUnknownEmail EXCEPT !.lookup = TRUE]
    ELSE
      LET resetToken == signJWT(rec, email, "password_reset", NoRoles, RecoveryTTL, now)
          emailSent == sendEmail(invoke)
      IN [Response("forgot", "known_email", 200, GenericRecoveryBody,
                   IF emailSent THEN {resetToken} ELSE NoTokens)
            EXCEPT !.lookup = TRUE, !.dispatch = TRUE, !.mail = invoke,
                   !.signed = {resetToken}]

\* fpCount: how many recovery requests in a row, at this instant, named the
\* same e-mail address (counted up to MaxAttempts)
Bump(email) ==
    IF fpCount.email = email
      THEN [fpCount EXCEPT !.n = IF @ < MaxAttempts THEN @ + 1 ELSE @]
      ELSE [email |-> email, n |-> 1]

ForgotPassword(email, ip) ==
    /\ \E rec \in Records(UserByEmail(email)) :
       \E invoke \in DispatchOutcomes(forgotPasswordOutcome(email, ip, rec, "ok")) :
         lastResp' = [forgotPasswordOutcome(email, ip, rec, invoke)
                        EXCEPT !.nth = IF IsEmail(email) THEN Bump(email).n ELSE 0,
                               !.subject = rec]
    /\ fpCount' = IF IsEmail(email) THEN Bump(email) ELSE fpCount
    /\ tokens' \in Held(lastResp'.issued)
    /\ UNCHANGED <<store, driver, now, ticks, pc, local, lastVerify, schema, derived, process>>

\* --------------------------------------------------- POST /auth/reset-password
\* (change of password by a user who knows the current one)
\* invoke: how the dispatch of the confirmation e-mail ended
resetPasswordOutcome(email, currentPassword, newPassword, rec, invoke) ==
    IF ~IsEmail(email)
      THEN Thrown("change", "validation", ZodError("Invalid email address"))
    ELSE IF currentPassword = newPassword
      THEN Thrown("change", "same_password",
                  ApiError(400, "New password must be different from current password",
                           NoData))
    ELSE IF driver = "null"
      THEN Thrown("change", "no_session", SessionError)
    ELSE IF rec = 0
      THEN Thrown("change", "not_found",
                  ApiError(401, "Invalid email or password", NoData))
    ELSE IF comparePassword(currentPassword, store[rec].password) = "throw"
      THEN Thrown("change", "compare_threw",
                  PlainError("Illegal arguments: string, object"))
    ELSE IF comparePassword(currentPassword, store[rec].password) = "false"
      THEN Thrown("change", "wrong_password",
                  ApiError(401, "Invalid email or password", NoData))
    ELSE FireAndForget(
           Response("change", "changed", 200,
                    [message |-> "Password updated successfully",
                     user |-> [id |-> rec, email |-> email]], NoTokens),
           invoke)

ResetPassword(email, currentPassword, newPassword) ==
    /\ \E rec \in Records(MemberByEmail(email)) :
       \E invoke \in DispatchOutcomes(
                       resetPasswordOutcome(email, currentPassword, newPassword, rec, "ok")) :
         /\ lastResp' = [resetPasswordOutcome(email, currentPassword, newPassword, rec,
                                              invoke)
                           EXCEPT !.subject = rec]
         /\ store' = IF lastResp'.cause = "changed"
                       THEN [store EXCEPT ![rec].password = hashPassword(newPassword)]
                       ELSE store
    /\ UNCHANGED <<driver, now, ticks, tokens, fpCount, pc, local, lastVerify, schema, derived, process>>

\* --------------------------------------------------- POST /auth/setup-password
\* Lines 26-40 of the route: `decoded = verifyJWT(setup_token)` is not
\* awaited, so decoded is the Promise; the catch around it never runs, and
\* decoded.action, decoded.userId and decoded.email are undefined.
setupDecoded(token, t) == AsyncCall(verifyJWT(token, t))

setupGate_AwaitedAnyAction(token, t) ==
    LET r == verifyJWT(token, t) IN
    IF ~r.ok
      THEN [pass |-> FALSE, cause |-> "bad_token",
            message |-> "Invalid or expired setup link. Please try logging in again.",
            decoded |-> Awaited(r)]
      ELSE [pass |-> TRUE, cause |-> "-", message |-> "-", decoded |-> Awaited(r)]
\* Lines 26-38: decoded is what verifyJWT returns, taken without await; the
\* catch around the call sees no rejection, and the action is read off the
\* Promise.
setupGate(token, t) ==
    LET decoded == setupDecoded(token, t) IN
    IF PropOf(decoded, "action") # "password_setup"
      THEN [pass |-> FALSE, cause |-> "wrong_action", message |-> "Invalid setup token",
            decoded |-> decoded]
      ELSE [pass |-> TRUE, cause |-> "-", message |-> "-", decoded |-> decoded]

\* MATCH (u:Member {id: $userId, email: $email}) WHERE u.password IS NULL
SetupMatch(userId, email) ==
    {n \in NodeIds : n = userId /\ Exists(n) /\ "Member" \in store[n].labels
                          /\ store[n].email = email /\ store[n].password = Null}

setupPasswordOutcome(gate) ==
    LET decoded == gate.decoded IN
    IF ~gate.pass
      THEN Thrown("setup", gate.cause, ApiError(400, gate.message, NoData))
    ELSE IF ~HasProps(decoded)
      THEN Thrown("setup", "query_failed",
                  PlainError("Expected parameter(s): userId, email"))
    ELSE IF SetupMatch(PropOf(decoded, "userId"), PropOf(decoded, "email")) = {}
      THEN \* the outer catch turns the 'already migrated' Error into an ApiError
           Thrown("setup", "already_set",
                  ApiError(400,
                    "This account has already been set up. Please login normally.",
                    NoData))
    ELSE
      LET userId == PropOf(decoded, "userId")
          accessToken == signJWT(userId, store[userId].email, Undefined, NoRoles,
                                 AccessTTL, now)
          refreshToken == signRefreshToken(userId, store[userId].email, NoRoles, now)
      IN Response("setup", "password_set", 200,
                  [message |-> "Setup complete - welcome!",
                   accessToken |-> accessToken, refreshToken |-> refreshToken,
                   user |-> [id |-> userId, email |-> store[userId].email]],
                  {accessToken, refreshToken})

\* The store after the conditional SET of the setup transaction
setupStore(resp, userId, newPassword) ==
    IF resp.status = 200
      THEN [store EXCEPT ![userId].password = hashPassword(newPassword),
                         ![userId].lastLoginAt = now]
      ELSE store

\* initializeDB(): returns the driver, creating it on the first call; a
\* failed attempt leaves the driver null and throws.
InitFailure == PlainError("Neo4j database is unavailable")

Presentable == tokens \cup {Forge(t) : t \in tokens} \cup {MalformedToken}

SetupPassword(token, newPassword) ==
    \E initOk \in BOOLEAN :
      IF driver = "null" /\ ~initOk
        THEN /\ lastResp' = Thrown("setup", "init_failed", InitFailure)
             /\ UNCHANGED <<store, driver, now, ticks, tokens, fpCount, pc, local, lastVerify, schema, derived, process>>
        ELSE /\ driver' = "ready"
             /\ lastResp' = [setupPasswordOutcome(setupGate(token, now))
                               EXCEPT !.presented = token]
             /\ store' = setupStore(lastResp', token.userId, newPassword)
             /\ tokens' \in Held(lastResp'.issued)
             /\ UNCHANGED <<now, ticks, fpCount, pc, local, lastVerify, schema, derived, process>>

\* ------------------------------------------------ legacy Lambda handlers
SetupTTL == 15

\* errorResponse(message, statusCode) of utils/response.ts
errorResponse(op, cause, message, statusCode) ==
    Response(op, cause, statusCode, [error |-> message, statusCode |-> statusCode],
             NoTokens)

\* The token the legacy login signs for a member whose password is null:
\* signJWT({ userId, email, action: 'password_setup' }, '15m')
IssueSetupToken(n) ==
    /\ Exists(n) /\ "Member" \in store[n].labels /\ store[n].password = Null
    /\ tokens' \in Held({signJWT(n, store[n].email, "password_setup", NoRoles,
                                 SetupTTL, now)})
    /\ UNCHANGED <<store, driver, now, ticks, lastResp, fpCount, pc, local, lastVerify, schema, derived, process>>

\* ---- the Lambda setup handler (handlers/setupPassword.ts)
setupHandlerOutcome(token) ==
    LET decoded == AsyncCall(verifyJWT(token, now)) IN
    IF PropOf(decoded, "action") # "password_setup"
      THEN errorResponse("setup_handler", "wrong_action", "Invalid setup token", 400)
    ELSE IF ~HasProps(decoded)
      THEN errorResponse("setup_handler", "query_failed",
                         "Expected parameter(s): userId, email", 500)
    ELSE IF SetupMatch(PropOf(decoded, "userId"), PropOf(decoded, "email")) = {}
      THEN errorResponse("setup_handler", "already_set",
             "This account has already been set up. Please login normally.", 400)
    ELSE
      LET userId == PropOf(decoded, "userId")
          accessToken == AsyncCall(signJWT(userId, store[userId].email, Undefined,
                                           NoRoles, AccessTTL, now))
          refreshToken == AsyncCall(signRefreshToken(userId, store[userId].email,
                                                     NoRoles, now))
      IN Response("setup_handler", "password_set", 200,
                  [message |-> "Setup complete - welcome!",
                   accessToken |-> accessToken, refreshToken |-> refreshToken,
                   user |-> [id |-> userId, email |-> store[userId].email]],
                  NoTokens)

SetupPasswordHandler(token, newPassword) ==
    \E initOk \in BOOLEAN :
      IF driver = "null" /\ ~initOk
        THEN /\ lastResp' = [errorResponse("setup_handler", "init_failed",
                                           InitFailure.message, 500)
                               EXCEPT !.presented = token]
             /\ UNCHANGED <<store, driver, now, ticks, tokens, fpCount, pc, local,
                            lastVerify, schema, derived, process>>
        ELSE /\ driver' = "ready"
             /\ lastResp' = [setupHandlerOutcome(token) EXCEPT !.presented = token]
             /\ store' = setupStore(lastResp', token.userId, newPassword)
             /\ UNCHANGED <<now, ticks, tokens, fpCount, pc, local, lastVerify, schema, derived, process>>

\* ---- the Lambda reset-completion handler (handlers/forgotPassword.ts)
\* MATCH (u:User {id: $userId, email: $email})
ResetMatch(userId, email) ==
    {n \in NodeIds : n = userId /\ Exists(n) /\ "User" \in store[n].labels
                          /\ store[n].email = email}

resetHandlerOutcome(token) ==
    LET decoded == AsyncCall(verifyJWT(token, now)) IN
    IF PropOf(decoded, "action") # "password_reset"
      THEN errorResponse("reset_handler", "wrong_action", "Invalid reset token", 400)
    ELSE IF ~HasProps(decoded)
      THEN errorResponse("reset_handler", "query_failed",
                         "Expected parameter(s): userId, email", 500)
    ELSE IF ResetMatch(PropOf(decoded, "userId"), PropOf(decoded, "email")) = {}
      THEN errorResponse("reset_handler", "not_found",
                         "Invalid reset link. User not found.", 404)
    ELSE
      LET userId == PropOf(decoded, "userId")
          jwtRoles == RolesClaim(deriveRolesFromFlags(FlagsOf(userId)))
          accessToken == AsyncCall(signJWT(userId, store[userId].email, Undefined,
                                           jwtRoles, AccessTTL, now))
          refreshToken == AsyncCall(signRefreshToken(userId, store[userId].email,
                                                     jwtRoles, now))
      IN Response("reset_handler", "password_reset", 200,
                  [message |-> "Password reset successful - welcome!",
                   accessToken |-> accessToken, refreshToken |-> refreshToken,
                   user |-> [id |-> userId, email |-> store[userId].email]],
                  NoTokens)

ResetPasswordHandler(token, newPassword) ==
    \E initOk \in BOOLEAN :
      IF driver = "null" /\ ~initOk
        THEN /\ lastResp' = [errorResponse("reset_handler", "init_failed",
                                           InitFailure.message, 500)
                               EXCEPT !.presented = token]
             /\ UNCHANGED <<store, driver, now, ticks, tokens, fpCount, pc, local,
                            lastVerify, schema, derived, process>>
        ELSE /\ driver' = "ready"
             /\ lastResp' = [resetHandlerOutcome(token) EXCEPT !.presented = token]
             /\ store' = setupStore(lastResp', token.userId, newPassword)
             /\ UNCHANGED <<now, ticks, tokens, fpCount, pc, local, lastVerify, schema, derived, process>>

\* ------------------------------------------------------------- the service
Next ==
    \/ \E e \in EmailInputs, p \in Passwords : Login(e, p)
    \/ \E e \in EmailInputs, ip \in Origins : ForgotPassword(e, ip)
    \/ \E e \in EmailInputs, p, q \in Passwords : ResetPassword(e, p, q)
    \/ \E t \in Presentable, p \in Passwords : SetupPassword(t, p)
    \/ \E n \in NodeIds : IssueSetupToken(n)
    \/ \E t \in Presentable, p \in Passwords : SetupPasswordHandler(t, p)
    \/ \E t \in Presentable, p \in Passwords : ResetPasswordHandler(t, p)

Spec == Init /\ [][Next]_vars

\* ====================================================================
\* Properties of the Express app (Spec)
\* ====================================================================
GenericInvalidBody == [error |-> "Invalid email or password", statusCode |-> 401]

\* C1: a login whose e-mail matches no identity and a login whose password
\* does not verify get the same response: status 401 and the body
\* { error: 'Invalid email or password', statusCode: 401 }, no other field,
\* no token.
C1_LoginFailuresIdentical ==
    (lastResp.op = "login" /\ lastResp.cause \in {"not_found", "wrong_password"})
      => /\ lastResp.status = 401
         /\ lastResp.body = GenericInvalidBody
         /\ lastResp.issued = {}

\* a known identity with a set password was refused for a wrong password
C1_Witness ==
    /\ lastResp.op = "login" /\ lastResp.cause = "wrong_password"
    /\ lastResp.subject # 0 /\ store[lastResp.subject].password # Null

C23_OnlyValidationDiffers ==
    (lastResp.op = "forgot" /\ lastResp.cause # "validation")
      => /\ lastResp.status = 200
         /\ lastResp.body = GenericRecoveryBody

C4_UnsetNeverAuthenticates ==
    [][\A n \in NodeIds :
         (Exists(n) /\ store[n].password = Null /\ lastResp' # lastResp
            /\ lastResp'.op \in {"login", "change"} /\ lastResp'.subject = n)
           => (lastResp'.status # 200 /\ lastResp'.issued = {})]_vars

\* change-password was tried on an identity whose password is unset
C4_Witness ==
    /\ lastResp.op = "change" /\ lastResp.subject # 0
    /\ store[lastResp.subject].password = Null

\* C6: from the 4th recovery request in a row for one e-mail address within
\* the hour on, the request is answered 200 with the generic message and
\* causes no directory lookup and no notification dispatch.
C6_RateLimitEnforced ==
    (lastResp.op = "forgot" /\ lastResp.nth > EmailMaxAttempts
       /\ lastResp.cause # "no_session")
      => /\ lastResp.status = 200
         /\ lastResp.body = GenericRecoveryBody
         /\ ~lastResp.lookup
         /\ ~lastResp.dispatch

TokenSubject == 1

InitToken ==
    /\ store \in {d \in InitialDirectories : d[1].password # Null /\ d[2] = NoNode}
    /\ InitCommon

SignAccess ==
    /\ Cardinality(tokens) < MaxTokens
    /\ tokens' \in Held({signJWT(TokenSubject, store[TokenSubject].email, Undefined,
                                 RolesClaim(deriveRolesFromFlags(FlagsOf(TokenSubject))),
                                 AccessTTL, now)})
    /\ lastVerify' = NoVerify
    /\ UNCHANGED <<store, driver, now, ticks, lastResp, fpCount, pc, local, schema, derived, process>>

SignRefresh ==
    /\ Cardinality(tokens) < MaxTokens
    /\ tokens' \in Held({signRefreshToken(TokenSubject, store[TokenSubject].email,
                                          NoRoles, now)})
    /\ lastVerify' = NoVerify
    /\ UNCHANGED <<store, driver, now, ticks, lastResp, fpCount, pc, local, schema, derived, process>>

SignRecovery ==
    /\ Cardinality(tokens) < MaxTokens
    /\ tokens' \in Held({signJWT(TokenSubject, store[TokenSubject].email,
                                 "password_reset", NoRoles, RecoveryTTL, now)})
    /\ lastVerify' = NoVerify
    /\ UNCHANGED <<store, driver, now, ticks, lastResp, fpCount, pc, local, schema, derived, process>>

\* verifyJWT(token) at the current time; a failure goes to the error handler
Verify(tok) ==
    /\ lastVerify' =
         LET found == JwtVerify(tok, JwtSecret, now)
             r == verifyJWT(tok, now)
             err == NamedError(r.name, r.message)
         IN [token |-> tok, at |-> now, ok |-> r.ok,
             reason |-> found.message, error |-> err,
             status |-> IF r.ok THEN 200 ELSE errorHandler(err).status,
             body |-> IF r.ok THEN [error |-> "-"] ELSE errorHandler(err).body]
    /\ UNCHANGED <<store, driver, now, ticks, tokens, lastResp, fpCount, pc, local, schema, derived, process>>

NextToken ==
    \/ \E d \in TickSteps : Tick(d)
    \/ SignAccess
    \/ SignRefresh
    \/ SignRecovery
    \/ \E tok \in Presentable : Verify(tok)

SpecToken == InitToken /\ [][NextToken]_vars

InvalidTokenError == NamedError("Error", "Invalid or expired token")
InvalidTokenBody == [error |-> "Invalid or expired token"]

\* C7: verifyJWT throws the same error, Error('Invalid or expired token'),
\* for a malformed token, a wrong signature and an expired token, and the
\* error handler answers each with 401 { error: 'Invalid or expired token' }.
C7_VerifyFailsUniformly ==
    (lastVerify.at >= 0
       /\ lastVerify.reason \in {"jwt malformed", "invalid signature", "jwt expired"})
      => /\ ~lastVerify.ok
         /\ lastVerify.error = InvalidTokenError
         /\ lastVerify.status = 401
         /\ lastVerify.body = InvalidTokenBody

\* a well-signed token was verified after its expiry and refused
C7_Witness ==
    /\ lastVerify.at >= 0 /\ lastVerify.reason = "jwt expired"
    /\ lastVerify.token \in tokens /\ ~lastVerify.ok

\* The lifetime, in minutes, the spec gives each class of token
LifetimeOf(tok) ==
    IF tok.action = "password_reset" THEN 24 * 60
    ELSE IF tok.roles.present THEN 30
    ELSE 7 * 24 * 60

\* C8: verification accepts a token only before issue time + lifetime
\* (access 30 minutes, recovery 24 hours, refresh 7 days); from then on a
\* well-signed token fails with the generic invalid-token error.
C8_AcceptedOnlyBeforeExpiry ==
    (lastVerify.at >= 0 /\ lastVerify.token.wellFormed)
      => /\ lastVerify.ok => lastVerify.at < lastVerify.token.iat + LifetimeOf(lastVerify.token)
         /\ (lastVerify.token.sig = JwtSecret
               /\ lastVerify.at >= lastVerify.token.iat + LifetimeOf(lastVerify.token))
              => (~lastVerify.ok /\ lastVerify.error = InvalidTokenError)

\* an access token is verified 31 minutes after it was issued, and refused
C8_Witness ==
    /\ lastVerify.token.wellFormed /\ lastVerify.token.sig = JwtSecret
    /\ lastVerify.token.roles.present
    /\ lastVerify.at = lastVerify.token.iat + 31
    /\ ~lastVerify.ok

\* ====================================================================
\* Concurrent password setup (SpecSetup): the Express setup route served by
\* two workers whose steps interleave at the route's awaits.
\* ====================================================================
\* POST /auth/setup-password arrives at worker p, which awaits initializeDB()
SetupBegin(p, token, newPassword) ==
    /\ pc[p] = "idle"
    /\ \E initOk \in BOOLEAN :
         IF driver = "null" /\ ~initOk
           THEN /\ pc' = [pc EXCEPT ![p] = "done"]
                /\ local' = [local EXCEPT ![p] =
                     [Idle EXCEPT !.token = token, !.password = newPassword,
                                  !.resp = [Thrown("setup", "init_failed", InitFailure)
                                              EXCEPT !.presented = token]]]
                /\ lastResp' = local'[p].resp
                /\ UNCHANGED driver
           ELSE /\ pc' = [pc EXCEPT ![p] = "run"]
                /\ local' = [q \in Procs |->
                     IF q = p
                       THEN [Idle EXCEPT !.token = token, !.password = newPassword,
                                         !.overlap = \E o \in Procs \ {p} : pc[o] = "run"]
                     ELSE IF pc[q] = "run" THEN [local[q] EXCEPT !.overlap = TRUE]
                     ELSE local[q]]
                /\ driver' = "ready"
                /\ UNCHANGED lastResp
    /\ UNCHANGED <<store, now, ticks, tokens, fpCount, lastVerify, schema, derived, process>>

\* The rest of the route once initializeDB() has returned: the token gate,
\* then the transaction with its conditional SET, then the response
SetupRun(p) ==
    /\ pc[p] = "run"
    /\ LET resp == [setupPasswordOutcome(setupGate(local[p].token, now))
                      EXCEPT !.presented = local[p].token]
       IN /\ local' = [local EXCEPT ![p].resp = resp]
          /\ lastResp' = resp
          /\ store' = setupStore(resp, local[p].token.userId, local[p].password)
          /\ tokens' \in Held(resp.issued)
    /\ pc' = [pc EXCEPT ![p] = "done"]
    /\ UNCHANGED <<driver, now, ticks, fpCount, lastVerify, schema, derived, process>>

\* The response is sent; the worker is free again
SetupEnd(p) ==
    /\ pc[p] = "done"
    /\ pc' = [pc EXCEPT ![p] = "idle"]
    /\ local' = [local EXCEPT ![p] = Idle]
    /\ UNCHANGED <<store, driver, now, ticks, tokens, lastResp, fpCount, lastVerify, schema, derived, process>>

NextSetup ==
    \/ \E n \in NodeIds : IssueSetupToken(n)
    \/ \E p \in Procs, t \in Presentable, pw \in Passwords : SetupBegin(p, t, pw)
    \/ \E p \in Procs : SetupRun(p)
    \/ \E p \in Procs : SetupEnd(p)

SpecSetup == Init /\ [][NextSetup]_vars

\* A validly signed, unexpired token with the given action
ValidWithAction(tok, action) ==
    /\ JwtVerify(tok, JwtSecret, now).ok
    /\ tok.action = action

SetupOps == {"setup", "setup_handler"}

\* C3: of two setup-password requests with valid setup tokens for the same
\* identity with no password, served concurrently, exactly one succeeds
\* and sets the password; the other gets the 'already set up' failure and
\* the stored hash stays the first one's.
C3_ExactlyOneSetupSucceeds ==
    \A n \in NodeIds :
      (/\ \A p \in Procs :
            /\ pc[p] = "done" /\ local[p].overlap
            /\ local[p].resp.cause # "init_failed"
            /\ ValidWithAction(local[p].token, "password_setup")
            /\ local[p].token.userId = n
            /\ local[p].token.email = store[n].email)
        => \E w \in Procs :
             /\ local[w].resp.status = 200
             /\ store[n].password = hashPassword(local[w].password)
             /\ \A o \in Procs \ {w} : local[o].resp.cause = "already_set"

Schemas == {"none", "member_email_unique", "user_email_unique"}

InactiveMember(email) ==
    [MemberUser(email, hashPassword("Password#01"), {}) EXCEPT !.markedInactive = TRUE]

\* Before any sign-up the directory holds at most one record per e-mail
\* address: a@x.com is absent, an active member or an inactive member.
SignupDirectories ==
    {[n \in NodeIds |-> IF n = 1 THEN na ELSE NoNode] :
       na \in {NoNode, MemberUser("a@x.com", hashPassword("Password#01"), {}),
               InactiveMember("a@x.com")}}

InitSignup ==
    /\ store \in SignupDirectories
    /\ driver \in {"null", "ready"}
    /\ now = 0
    /\ ticks = 0
    /\ tokens = {}
    /\ lastResp = NoResp
    /\ fpCount = NoRun
    /\ pc = [p \in Procs |-> "idle"]
    /\ local = [p \in Procs |-> Idle]
    /\ lastVerify = NoVerify
    /\ schema \in Schemas
    /\ derived = NoDerivation
    /\ InitProcess

\* A worker's request ends with the response resp
SignupDone(p, resp) ==
    /\ pc' = [pc EXCEPT ![p] = "done"]
    /\ local' = [local EXCEPT ![p].resp = resp]
    /\ lastResp' = resp

DuplicateMatch_MemberOnly(email) == MemberByEmail(email)
\* lines 46-64: MATCH (u) WHERE (u:User OR u:Member) AND u.email = $email
DuplicateMatch(email) == UserByEmail(email) \cup MemberByEmail(email)

\* The records that hold the e-mail address, whatever their labels
HoldersOf(email) == {n \in NodeIds : Exists(n) /\ store[n].email = email}

\* lines 19-23: parse the body, take a session
SignupBegin(p, email, password) ==
    /\ pc[p] = "idle"
    /\ IF ~IsEmail(email)
         THEN /\ pc' = [pc EXCEPT ![p] = "done"]
              /\ local' = [local EXCEPT ![p] =
                   [Idle EXCEPT !.email = email, !.password = password,
                                !.resp = Thrown("signup", "validation",
                                                ZodError("Invalid email address"))]]
              /\ lastResp' = local'[p].resp
       ELSE IF driver = "null"
         THEN /\ pc' = [pc EXCEPT ![p] = "done"]
              /\ local' = [local EXCEPT ![p] =
                   [Idle EXCEPT !.email = email, !.password = password,
                                !.existed = HoldersOf(email) # {},
                                !.resp = Thrown("signup", "no_session", SessionError)]]
              /\ lastResp' = local'[p].resp
       ELSE /\ pc' = [pc EXCEPT ![p] = "inactive"]
            /\ local' = [local EXCEPT ![p] =
                 [Idle EXCEPT !.email = email, !.password = password,
                              !.existed = HoldersOf(email) # {}]]
            /\ UNCHANGED lastResp
    /\ UNCHANGED <<store, driver, now, ticks, tokens, fpCount, lastVerify, schema, derived, process>>

InactiveMatch_ActiveOnly(email) ==
    {n \in MemberByEmail(email) : ~store[n].markedInactive}
\* lines 25-44: MATCH (m:Member {email: $email}) WHERE m.markedInactive = true
InactiveMatch(email) ==
    {n \in MemberByEmail(email) : store[n].markedInactive}

SignupInactiveCheck(p) ==
    /\ pc[p] = "inactive"
    /\ IF InactiveMatch(local[p].email) # {}
         THEN SignupDone(p, Thrown("signup", "inactive",
                ApiError(409, "An inactive account exists. Please contact support to reactivate your account.",
                         NoData)))
         ELSE /\ pc' = [pc EXCEPT ![p] = "duplicate"]
              /\ UNCHANGED <<local, lastResp>>
    /\ UNCHANGED <<store, driver, now, ticks, tokens, fpCount, lastVerify, schema, derived, process>>

SignupDuplicateCheck(p) ==
    /\ pc[p] = "duplicate"
    /\ IF DuplicateMatch(local[p].email) # {}
         THEN SignupDone(p, Thrown("signup", "duplicate",
                ApiError(409, "There is already an account with this email", NoData)))
         ELSE /\ pc' = [pc EXCEPT ![p] = "create"]
              /\ UNCHANGED <<local, lastResp>>
    /\ UNCHANGED <<store, driver, now, ticks, tokens, fpCount, lastVerify, schema, derived, process>>

\* The database refuses a CREATE that breaks a uniqueness constraint it holds
ConstraintBroken(labels, email) ==
    \/ schema = "user_email_unique" /\ "User" \in labels /\ UserByEmail(email) # {}
    \/ schema = "member_email_unique" /\ "Member" \in labels /\ MemberByEmail(email) # {}

NewUser(email, password) ==
    [email |-> email, password |-> hashPassword(password), labels |-> {"User"},
     rels |-> {}, markedInactive |-> FALSE, lastLoginAt |-> Never]

\* lines 116-144: the welcome e-mail is dispatched, then 201 is answered
signupCreated(id, email, invoke) ==
    FireAndForget(
      [Response("signup", "created", 201,
                [message |-> "User created successfully",
                 user |-> [id |-> id, email |-> email]],
                NoTokens) EXCEPT !.subject = id],
      invoke)

\* lines 87-144: hash the password, CREATE (person:User), answer 201
SignupCreate(p) ==
    /\ pc[p] = "create"
    /\ \E id \in NodeIds :
         /\ ~Exists(id) /\ \A lower \in NodeIds : lower < id => Exists(lower)
         /\ IF ConstraintBroken({"User"}, local[p].email)
              THEN /\ SignupDone(p, Thrown("signup", "constraint",
                        NamedError("Neo4jError", "Node already exists with label User and property email")))
                   /\ UNCHANGED store
              ELSE /\ store' = [store EXCEPT ![id] = NewUser(local[p].email, local[p].password)]
                   /\ \E invoke \in LambdaOutcomes :
                        SignupDone(p, signupCreated(id, local[p].email, invoke))
    /\ UNCHANGED <<driver, now, ticks, tokens, fpCount, lastVerify, schema, derived, process>>

SignupEnd(p) ==
    /\ pc[p] = "done"
    /\ pc' = [pc EXCEPT ![p] = "idle"]
    /\ local' = [local EXCEPT ![p] = Idle]
    /\ UNCHANGED <<store, driver, now, ticks, tokens, lastResp, fpCount, lastVerify, schema, derived, process>>

NextSignup ==
    \/ \E p \in Procs, e \in EmailInputs, pw \in Passwords : SignupBegin(p, e, pw)
    \/ \E p \in Procs : SignupInactiveCheck(p)
    \/ \E p \in Procs : SignupDuplicateCheck(p)
    \/ \E p \in Procs : SignupCreate(p)
    \/ \E p \in Procs : SignupEnd(p)

SpecSignup == InitSignup /\ [][NextSignup]_vars

\* C11: a sign-up that arrives when a record with its e-mail address exists
\* (and that reaches the directory) never comes to the CREATE, ends with
\* 409 Conflict, and leaves the directory, the existing password hash
\* included, as it was.
C11_DuplicateSignupConflict ==
    [][\A p \in Procs :
         (local'[p].existed /\ pc'[p] # "idle")
           => /\ pc'[p] # "create"
              /\ (pc[p] # "done" /\ pc'[p] = "done"
                    /\ local'[p].resp.cause # "no_session")
                   => /\ local'[p].resp.status = 409
                      /\ store' = store]_vars

\* a sign-up for the address of a record an earlier sign-up created has
\* been refused as a duplicate
C11_Witness ==
    \E p \in Procs :
      /\ pc[p] = "done" /\ local[p].existed
      /\ local[p].resp.status = 409 /\ local[p].resp.cause = "duplicate"
      /\ \E n \in HoldersOf(local[p].email) :
            /\ store[n].labels = {"User"}
            /\ store[n].password # hashPassword(local[p].password)

\* C10: in every reachable state, whatever the interleaving of concurrent
\* sign-ups for the same e-mail address, at most one identity record holds
\* a given e-mail address.
C10_EmailUnique ==
    \A m, n \in NodeIds :
      (Exists(m) /\ Exists(n) /\ store[m].email = store[n].email) => m = n

\* C28: every identity record that signup creates carries both the Member
\* and the User label.
C28_SignupCreatesMemberUser ==
    [][\A p \in Procs :
         (SignupCreate(p) /\ local'[p].resp.cause = "created")
           => {"Member", "User"} \subseteq store'[local'[p].resp.subject].labels]_vars

DuplicateMessage == "There is already an account with this email"
InactiveMessage ==
    "An inactive account exists. Please contact support to reactivate your account."

\* C29: a signup whose e-mail belongs to an identity marked inactive is
\* refused with 409 and the message that tells the caller to contact support,
\* not the ordinary duplicate message; the refusal comes from the first
\* check, before the duplicate check, and no record is created.
C29_InactiveSignupRefused ==
    [][\A p \in Procs :
         (/\ SignupInactiveCheck(p)
          /\ \E n \in NodeIds : /\ Exists(n) /\ "Member" \in store[n].labels
                                 /\ store[n].email = local[p].email
                                 /\ store[n].markedInactive)
           => /\ pc'[p] = "done"
              /\ local'[p].resp.status = 409
              /\ local'[p].resp.body.error = InactiveMessage
              /\ local'[p].resp.body.error # DuplicateMessage
              /\ store' = store]_vars

\* a signup for the address of an inactive member, which the duplicate
\* check matches as well, was refused by the inactive check
C29_Witness ==
    \E p \in Procs :
      /\ pc[p] = "done" /\ local[p].resp.cause = "inactive"
      /\ local[p].resp.status = 409
      /\ InactiveMatch(local[p].email) \subseteq DuplicateMatch(local[p].email)
      /\ InactiveMatch(local[p].email) # {}

\* ====================================================================
\* Accounts and sessions (SpecAccount): login (Express route and legacy
\* Lambda handler), token refresh and account deletion, while other
\* services grant and revoke the member's relationships.
\* ====================================================================
\* The (flag, role) lines of the login handler's explicit mapping, in order
HandlerRoleTable ==
    << <<"leadsBacenta", "leaderBacenta">>,
       <<"leadsGovernorship", "leaderGovernorship">>,
       <<"leadsCouncil", "leaderCouncil">>, <<"leadsStream", "leaderStream">>,
       <<"leadsCampus", "leaderCampus">>, <<"leadsOversight", "leaderOversight">>,
       <<"leadsDenomination", "leaderDenomination">>,
       <<"isAdminForCampus", "adminCampus">>,
       <<"isAdminForGovernorship", "adminGovernorship">>,
       <<"isAdminForCouncil", "adminCouncil">>, <<"isAdminForStream", "adminStream">>,
       <<"isAdminForOversight", "adminOversight">>,
       <<"isAdminForDenomination", "adminDenomination">>,
       <<"isArrivalsAdminForGovernorship", "arrivalsAdminGovernorship">>,
       <<"isArrivalsAdminForCouncil", "arrivalsAdminCouncil">>,
       <<"isArrivalsAdminForStream", "arrivalsAdminStream">>,
       <<"isArrivalsAdminForCampus", "arrivalsAdminCampus">>,
       <<"isArrivalsCounterForStream", "arrivalsCounterStream">>,
       <<"isArrivalsPayerCouncil", "tellerCouncil">>,
       <<"isTellerForStream", "tellerStream">>,
       <<"isSheepSeekerForStream", "sheepSeekerStream">> >>

\* The keys of the roles map the login handler's query returns
HandlerFlags == {HandlerRoleTable[i][1] : i \in 1 .. Len(HandlerRoleTable)}

RECURSIVE PushFrom(_, _, _, _)
PushFrom(table, flags, i, roles) ==
    IF i > Len(table) THEN roles
    ELSE PushFrom(table, flags, i + 1,
                  IF table[i][1] \in flags THEN Append(roles, table[i][2]) ELSE roles)

\* jwtRoles of the handler: the pushes in the handler's order, then
\* [...new Set(jwtRoles)]
handlerRoles(flags) == Dedupe(PushFrom(HandlerRoleTable, flags, 1, <<>>), <<>>)

\* rec: the record MATCH (m:User) WHERE m.email = $email returned, 0: none
loginHandlerOutcome(email, password, rec) ==
    IF ~IsEmail(email)
      THEN errorResponse("login_handler", "validation", "Invalid email address", 400)
    ELSE IF rec = 0
      THEN errorResponse("login_handler", "not_found", "Invalid email or password", 401)
    ELSE IF store[rec].password = Null
      THEN [errorResponse("login_handler", "password_unset",
              "Password not set. Please use 'Forgot Password' to set up your password.",
              401)
              EXCEPT !.body = [requiresPasswordSetup |-> TRUE] @@ @]
    ELSE IF comparePassword(password, store[rec].password) # "true"
      THEN errorResponse("login_handler", "wrong_password",
                         "Invalid email or password", 401)
    ELSE
      LET roles == RolesClaim(handlerRoles(store[rec].rels \cap HandlerFlags))
          accessToken == signJWT(rec, store[rec].email, Undefined, roles, AccessTTL, now)
          refreshToken == signRefreshToken(rec, store[rec].email, roles, now)
      IN [Response("login_handler", "authenticated", 200,
                   [message |-> "Login successful",
                    accessToken |-> AsyncCall(accessToken),
                    refreshToken |-> AsyncCall(refreshToken),
                    user |-> [id |-> rec, email |-> store[rec].email]],
                   NoTokens)
            EXCEPT !.signed = {accessToken, refreshToken}]

lastLoginUpdate_BeforeVerify(rec, resp) ==
    IF rec # 0 THEN [store EXCEPT ![rec].lastLoginAt = now] ELSE store
\* MATCH (u:User {id: $userId}) SET u.lastLoginAt = datetime(): reached only
\* after the password was verified
lastLoginUpdate(rec, resp) ==
    IF resp.status = 200 THEN [store EXCEPT ![rec].lastLoginAt = now] ELSE store

LoginHandler(email, password) ==
    \E initOk \in BOOLEAN :
      IF driver = "null" /\ ~initOk
        THEN /\ lastResp' = errorResponse("login_handler", "init_failed",
                                          InitFailure.message, 500)
             /\ UNCHANGED <<store, driver, now, ticks, tokens, fpCount, pc, local,
                            lastVerify, schema, derived, process>>
        ELSE /\ driver' = "ready"
             /\ \E rec \in Records(UserByEmail(email)) :
                  /\ lastResp' = [loginHandlerOutcome(email, password, rec)
                                    EXCEPT !.subject = rec]
                  /\ store' = lastLoginUpdate(rec, lastResp')
             \* the response carries the two Promises, not the tokens
             /\ UNCHANGED <<now, ticks, tokens, fpCount, pc, local, lastVerify, schema, derived, process>>

\* ---- POST /auth/refresh-token
\* MATCH (m:User:Member {id: $userId})
RefreshMatch(userId) ==
    {n \in NodeIds : n = userId /\ Exists(n) /\ {"User", "Member"} \subseteq store[n].labels}

refreshNotFound_Unauthorized == ApiError(401, "Invalid or expired token", NoData)
refreshNotFound == ApiError(404, "User not found", NoData)

refreshRoles_FromToken(token, rec) == token.roles
\* the roles of the new access token: derived from the flags just read
refreshRoles(token, rec) == RolesClaim(deriveRolesFromFlags(FlagsOf(rec)))

refreshTokenOutcome(token) ==
    LET decoded == Awaited(verifyJWT(token, now)) IN
    IF ~decoded.settled.ok
      THEN Thrown("refresh", "bad_token",
                  NamedError(decoded.settled.name, decoded.settled.message))
    ELSE IF driver = "null"
      THEN Thrown("refresh", "no_session", SessionError)
    ELSE IF RefreshMatch(PropOf(decoded, "userId")) = {}
      THEN Thrown("refresh", "not_found", refreshNotFound)
    ELSE
      LET rec == PropOf(decoded, "userId")
          newAccessToken == signJWT(rec, store[rec].email, Undefined,
                                    refreshRoles(token, rec), AccessTTL, now)
      IN [Response("refresh", "refreshed", 200,
                   [message |-> "Token refreshed successfully",
                    accessToken |-> newAccessToken],
                   {newAccessToken})
            EXCEPT !.subject = rec, !.lookup = TRUE]

RefreshToken(token) ==
    /\ lastResp' = [refreshTokenOutcome(token) EXCEPT !.presented = token]
    /\ tokens' \in Held(lastResp'.issued)
    /\ UNCHANGED <<store, driver, now, ticks, fpCount, pc, local, lastVerify, schema, derived, process>>

\* ---- DELETE /auth/delete-account
\* The steps of the deletion transaction that can fail
TxSteps == {"read", "delete", "commit"}

\* MATCH (u:Member {id: $userId})
DeleteMatch(userId) ==
    {n \in NodeIds : n = userId /\ Exists(n) /\ "Member" \in store[n].labels}

deleteStore_AutoCommit(userId, fail) ==
    IF fail \in {"none", "commit"}
      THEN [n \in NodeIds |-> IF n \in DeleteMatch(userId) THEN NoNode ELSE store[n]]
      ELSE store
\* The directory after the transaction: DETACH DELETE takes effect at
\* tx.commit(); a step that throws leads to tx.rollback().
deleteStore(userId, fail) ==
    IF fail = "none"
      THEN [n \in NodeIds |-> IF n \in DeleteMatch(userId) THEN NoNode ELSE store[n]]
      ELSE store

\* fail: the step of the transaction that throws ("none": no step does);
\* invoke: how the dispatch of the confirmation e-mail ended
deleteAccountOutcome(token, confirmDeletion, fail, invoke) ==
    LET decoded == Awaited(verifyJWT(token, now)) IN
    IF ~token.wellFormed \/ ~confirmDeletion
      THEN Thrown("delete", "validation", ZodError("You must confirm account deletion"))
    ELSE IF ~decoded.settled.ok
      THEN Thrown("delete", "bad_token",
                  NamedError(decoded.settled.name, decoded.settled.message))
    ELSE IF driver = "null"
      THEN Thrown("delete", "no_session", SessionError)
    ELSE IF fail # "none"
      THEN Thrown("delete", "tx_failed",
                  NamedError("Neo4jError", "Transaction failed"))
    ELSE
      LET userId == PropOf(decoded, "userId")
          done == [Response("delete", "deleted", 200,
                            [message |-> "Account deleted successfully",
                             accountId |-> userId], NoTokens)
                     EXCEPT !.subject = userId, !.lookup = TRUE]
      IN  IF DeleteMatch(userId) # {} THEN FireAndForget(done, invoke) ELSE done

DeleteAccount(token, confirmDeletion, fail) ==
    /\ ~confirmDeletion => fail = "none"
    /\ \E invoke \in DispatchOutcomes(
                       deleteAccountOutcome(token, confirmDeletion, fail, "ok")) :
         /\ lastResp' = [deleteAccountOutcome(token, confirmDeletion, fail, invoke)
                           EXCEPT !.presented = token]
    /\ store' = IF lastResp'.cause \in {"deleted", "tx_failed"}
                  THEN deleteStore(token.userId, fail)
                  ELSE store
    /\ UNCHANGED <<driver, now, ticks, tokens, fpCount, pc, local, lastVerify, schema, derived, process>>

\* ---- DELETE /auth/delete-account as app.ts routes it
\* req.body when the handler runs and the body was not parsed: the schema
\* finds neither a token nor confirmDeletion in it
NoBody == [token |-> MalformedToken, confirmDeletion |-> FALSE]

\* jsonBodyParser: GET and DELETE requests go to next() at once, with the
\* body unread; for the other methods req.body is the parsed JSON
jsonBodyParser(method, json) ==
    IF method \in {"GET", "DELETE"} THEN NoBody ELSE json

\* app.use(jsonBodyParser), then app.delete('/auth/delete-account', deleteAccount)
DeleteAccountRequest(token, confirmDeletion) ==
    LET body == jsonBodyParser("DELETE", [token |-> token,
                                          confirmDeletion |-> confirmDeletion])
    IN  /\ \E invoke \in DispatchOutcomes(
                           deleteAccountOutcome(body.token, body.confirmDeletion,
                                                "none", "ok")) :
             lastResp' = [deleteAccountOutcome(body.token, body.confirmDeletion,
                                               "none", invoke)
                            EXCEPT !.presented = token, !.op = "delete_request"]
        /\ store' = IF lastResp'.cause = "deleted"
                      THEN deleteStore(body.token.userId, "none")
                      ELSE store
        /\ UNCHANGED <<driver, now, ticks, tokens, fpCount, pc, local, lastVerify,
                       schema, derived, process>>

\* ---- the directory's other writers
ToggledFlags == {"leadsBacenta", "isAdminForCampus"}

\* Another service grants or revokes a relationship of a member
ChangeFlag(n, flag) ==
    /\ Exists(n)
    /\ store' = [store EXCEPT ![n].rels =
                   IF flag \in @ THEN @ \ {flag} ELSE @ \cup {flag}]
    /\ UNCHANGED <<driver, now, ticks, tokens, lastResp, fpCount, pc, local, lastVerify,
                   schema, derived, process>>

NextAccount ==
    \/ \E e \in EmailInputs, p \in Passwords : Login(e, p)
    \/ \E e \in EmailInputs, p \in Passwords : LoginHandler(e, p)
    \/ \E n \in NodeIds : IssueSetupToken(n)
    \/ \E t \in Presentable : RefreshToken(t)
    \/ \E t \in Presentable, c \in BOOLEAN, f \in TxSteps \cup {"none"} :
         DeleteAccount(t, c, f)
    \/ \E t \in Presentable, c \in BOOLEAN : DeleteAccountRequest(t, c)
    \/ \E n \in NodeIds, f \in ToggledFlags : ChangeFlag(n, f)

\* One member, a@x.com, with or without a password
InitAccount ==
    /\ store \in {d \in InitialDirectories : d[2] = NoNode}
    /\ InitCommon

SpecAccount == InitAccount /\ [][NextAccount]_vars

\* C24: every successful login updates the identity's lastLoginAt.
C24_LoginUpdatesLastLogin ==
    [][\A e \in EmailInputs, p \in Passwords :
         (lastResp'.status = 200 /\ (Login(e, p) \/ LoginHandler(e, p)))
           => store'[lastResp'.subject].lastLoginAt = now]_vars

\* C25: a login that fails (unknown e-mail, unset password, wrong password)
\* leaves every identity record as it was, lastLoginAt and the password
\* hash included.
C25_FailedLoginLeavesRecords ==
    [][\A e \in EmailInputs, p \in Passwords :
         (/\ lastResp'.op \in {"login", "login_handler"} /\ lastResp'.status # 200
          /\ Login(e, p) \/ LoginHandler(e, p))
           => store' = store]_vars

\* the legacy handler refused a wrong password for an identity that exists
\* and has never logged in
C25_Witness ==
    /\ lastResp.op = "login_handler" /\ lastResp.cause = "wrong_password"
    /\ lastResp.subject # 0 /\ Exists(lastResp.subject)
    /\ store[lastResp.subject].lastLoginAt = Never

\* What tells the kinds of token apart: only lifetime and payload
IsAccessToken(tok) ==
    tok.wellFormed /\ tok.exp - tok.iat = 30 /\ tok.action = Undefined
IsRefreshToken(tok) ==
    tok.wellFormed /\ tok.exp - tok.iat = 7 * 24 * 60 /\ tok.action = Undefined
Verifies(tok) == JwtVerify(tok, JwtSecret, now).ok

\* C30: a DELETE /auth/delete-account request whose JSON body is
\* { token, confirmDeletion: true } with a valid token reaches deleteAccount
\* with that body parsed, deletes the account and returns the success
\* message with the accountId.
C30_DeleteRequestDeletes ==
    [][\A t \in Presentable :
         (/\ Verifies(t) /\ Exists(t.userId) /\ driver # "null"
          /\ DeleteAccountRequest(t, TRUE))
           => /\ lastResp'.status = 200
              /\ lastResp'.body = [message |-> "Account deleted successfully",
                                   accountId |-> t.userId]
              /\ store'[t.userId] = NoNode]_vars

\* C12: when a step of the deletion transaction fails, the directory (the
\* record and its relationships) is as before the request, the request
\* fails, and no deletion notification is dispatched.
C12_FailedDeletionRollsBack ==
    [][\A t \in Presentable, f \in TxSteps :
         (lastResp'.cause = "tx_failed" /\ DeleteAccount(t, TRUE, f))
           => /\ store' = store
              /\ ~lastResp'.dispatch
              /\ lastResp'.status >= 500]_vars

\* the deletion of an existing account, asked for with a valid token, has
\* failed inside the transaction
C12_Witness ==
    /\ lastResp.op = "delete" /\ lastResp.cause = "tx_failed"
    /\ Verifies(lastResp.presented)
    /\ DeleteMatch(lastResp.presented.userId) # {}

C14_RefreshTokensCarryNoRoles ==
    \A t \in lastResp.signed : IsRefreshToken(t) => ~t.roles.present

\* C15: the access token a refresh issues carries exactly the roles derived
\* from the member's flags as the directory holds them at that refresh,
\* whatever the tokens issued at login contained.
C15_RefreshReadsCurrentFlags ==
    [][\A t \in Presentable :
         (lastResp'.status = 200 /\ RefreshToken(t))
           => /\ lastResp'.issued # {}
              /\ \A a \in lastResp'.issued :
                   a.roles = RolesClaim(deriveRolesFromFlags(
                               store[a.userId].rels \cap MEMBER_FLAGS_QUERY))]_vars

\* a refresh has issued an access token whose roles differ from those of
\* the access token the same member still holds from login
C15_Witness ==
    /\ lastResp.op = "refresh" /\ lastResp.status = 200
    /\ IsRefreshToken(lastResp.presented)
    /\ \E new \in lastResp.issued, old \in tokens :
         /\ IsAccessToken(old) /\ old.userId = new.userId
         /\ old.roles # new.roles

\* C16: a refresh that presents a valid token of an account that is no
\* longer in the directory fails with 404 'User not found' and issues no
\* access token.
C16_RefreshAfterDeletionNotFound ==
    [][\A t \in Presentable :
         (Verifies(t) /\ ~Exists(t.userId) /\ RefreshToken(t))
           => /\ lastResp'.status = 404
              /\ lastResp'.body.error = "User not found"
              /\ lastResp'.issued = {}
              /\ tokens' = tokens]_vars

\* the refresh token of a deleted account, still unexpired, was refused
C16_Witness ==
    /\ lastResp.op = "refresh" /\ lastResp.status = 404
    /\ IsRefreshToken(lastResp.presented) /\ Verifies(lastResp.presented)
    /\ lastResp.presented \in tokens
    /\ ~Exists(lastResp.presented.userId)

\* =================================================================== roles
\* Role derivation as a function of the flags alone. The repository holds
\* the derivation three times: utils/roles.ts (imported by the routes), the
\* same lines copied into the login handler next to its explicit mapping, and
\* a variant that filters against the whitelist of permission-utils.

\* Largest number of truthy flags in an evaluated flag set
MaxFlags == 3

SUPPORTED_ROLES ==
    {"leaderDenomination", "leaderOversight", "leaderCampus", "leaderStream",
     "leaderCouncil", "leaderGovernorship", "leaderBacenta", "leaderMinistry",
     "leaderCreativeArts", "leaderHubCouncil", "leaderHub",
     "adminDenomination", "adminOversight", "adminCampus", "adminStream",
     "adminCouncil", "adminGovernorship", "adminMinistry", "adminCreativeArts",
     "arrivalsAdminCampus", "arrivalsAdminStream", "arrivalsAdminCouncil",
     "arrivalsAdminGovernorship", "arrivalsCounterStream", "arrivalsPayerCouncil",
     "tellerStream", "fisher"}

isSupportedRole(role) == role \in SUPPORTED_ROLES

\* roles.filter(isSupportedRole)
filterValidRoles(roles) == SelectSeq(roles, isSupportedRole)

\* The (flag, role) lines of the whitelisting derivation, in source order.
WhitelistedRoleTable ==
    << <<"leadsBacenta", "leaderBacenta">>, <<"leadsCampus", "leaderCampus">>,
       <<"leadsCouncil", "leaderCouncil">>, <<"leadsStream", "leaderStream">>,
       <<"leadsGovernorship", "leaderGovernorship">>,
       <<"leadsOversight", "leaderOversight">>,
       <<"leadsDenomination", "leaderDenomination">>,
       <<"isAdminForStream", "adminStream">>, <<"isAdminForCampus", "adminCampus">>,
       <<"isAdminForCouncil", "adminCouncil">>,
       <<"isAdminForGovernorship", "adminGovernorship">>,
       <<"isAdminForOversight", "adminOversight">>,
       <<"isAdminForDenomination", "adminDenomination">>,
       <<"isArrivalsAdminForStream", "arrivalsAdminStream">>,
       <<"isArrivalsAdminForCampus", "arrivalsAdminCampus">>,
       <<"isArrivalsAdminForCouncil", "arrivalsAdminCouncil">>,
       <<"isArrivalsAdminForGovernorship", "arrivalsAdminGovernorship">>,
       <<"isArrivalsCounterForStream", "arrivalsCounterStream">>,
       <<"isArrivalsPayerCouncil", "arrivalsPayerCouncil">>,
       <<"isTellerForStream", "tellerStream">>,
       <<"isFisher", "fisher">> >>

\* return [...new Set(filterValidRoles(roles))]
deriveRolesFromFlags_Whitelisted(flags) ==
    Dedupe(filterValidRoles(PushFrom(WhitelistedRoleTable, flags, 1, <<>>)), <<>>)

\* Every flag name some derivation reads or the flags query returns
RoleFlagNames ==
    MEMBER_FLAGS_QUERY \cup HandlerFlags
      \cup {RoleTable[i][1] : i \in 1 .. Len(RoleTable)}
      \cup {WhitelistedRoleTable[i][1] : i \in 1 .. Len(WhitelistedRoleTable)}

\* The flag sets with at most k truthy flags
RECURSIVE FlagSetsUpTo(_)
FlagSetsUpTo(k) ==
    IF k = 0 THEN {{}}
    ELSE LET prev == FlagSetsUpTo(k - 1)
         IN  prev \cup {fs \cup {f} : fs \in prev, f \in RoleFlagNames}

FlagSets == FlagSetsUpTo(MaxFlags)

\* The orders in which the lines of the truthy flags can be evaluated
EvaluationOrders(flags) ==
    {o \in [1 .. Cardinality(flags) -> flags] :
        \A i, j \in 1 .. Cardinality(flags) : i # j => o[i] # o[j]}

\* The lines of deriveRolesFromFlags evaluated with the truthy flags taken in
\* the given order: a line whose flag is falsy pushes nothing wherever it
\* stands, so the order of the truthy ones is the whole of the order.
RECURSIVE PushInOrder(_, _, _)
PushInOrder(order, i, roles) ==
    IF i > Len(order) THEN roles
    ELSE PushInOrder(order, i + 1, PushFrom(RoleTable, {order[i]}, 1, roles))

Range(seq) == {seq[i] : i \in 1 .. Len(seq)}

\* The result of one evaluation, with what deduplication and whitelist
\* filtering make of that result when applied to it once more
Derivation(by, flags, order, roles) ==
    [by |-> by, flags |-> flags, order |-> order, roles |-> roles,
     again |-> Dedupe(filterValidRoles(roles), <<>>)]

InitRoles ==
    /\ store = [n \in NodeIds |-> NoNode]
    /\ driver = "null"
    /\ now = 0
    /\ ticks = 0
    /\ tokens = {}
    /\ lastResp = NoResp
    /\ fpCount = NoRun
    /\ pc = [p \in Procs |-> "idle"]
    /\ local = [p \in Procs |-> Idle]
    /\ lastVerify = NoVerify
    /\ schema = "none"
    /\ derived \in {[NoDerivation EXCEPT !.flags = fs] : fs \in FlagSets}
    /\ InitProcess

RolesFrame ==
    UNCHANGED <<store, driver, now, ticks, tokens, lastResp, fpCount, pc, local,
                lastVerify, schema, process>>

\* deriveRolesFromFlags of utils/roles.ts
DeriveRoles ==
    /\ derived.by = "none"
    /\ derived' = Derivation("roles", derived.flags, <<>>,
                             deriveRolesFromFlags(derived.flags))
    /\ RolesFrame

\* the explicit mapping of the login handler, over the flags its query returns
DeriveHandlerRoles ==
    /\ derived.by = "none"
    /\ derived' = Derivation("handler", derived.flags, <<>>,
                             handlerRoles(derived.flags \cap HandlerFlags))
    /\ RolesFrame

\* the derivation that filters against SUPPORTED_ROLES
DeriveWhitelisted ==
    /\ derived.by = "none"
    /\ derived' = Derivation("whitelisted", derived.flags, <<>>,
                             deriveRolesFromFlags_Whitelisted(derived.flags))
    /\ RolesFrame

\* the lines of utils/roles.ts evaluated in another order
DeriveInOrder(order) ==
    /\ derived.by = "none"
    /\ derived' = Derivation("ordered", derived.flags, order,
                             Dedupe(PushInOrder(order, 1, <<>>), <<>>))
    /\ RolesFrame

NextRoles ==
    \/ DeriveRoles
    \/ DeriveHandlerRoles
    \/ DeriveWhitelisted
    \/ \E order \in EvaluationOrders(derived.flags) : DeriveInOrder(order)

SpecRoles == InitRoles /\ [][NextRoles]_vars

\* The evaluations that are results of a function named deriveRolesFromFlags
ByDeriveRolesFromFlags == {"roles", "whitelisted"}

NoDuplicates(seq) == \A i, j \in 1 .. Len(seq) : i # j => seq[i] # seq[j]

\* C17: for every flag set, every role name deriveRolesFromFlags returns is a
\* member of SUPPORTED_ROLES and no role name occurs twice in the result.
C17_RolesWhitelistedAndDistinct ==
    derived.by \in ByDeriveRolesFromFlags
      => /\ Range(derived.roles) \subseteq SUPPORTED_ROLES
         /\ NoDuplicates(derived.roles)

\* C18: the derivation is order-independent and idempotent: the lines
\* evaluated in any order, and in the order of the login handler's explicit
\* mapping, yield the set of roles the source order yields; and deduplicating
\* and whitelist-filtering an output once more leaves it unchanged.
C18_OrderIndependentIdempotent ==
    /\ derived.by \in {"ordered", "handler"}
         => Range(derived.roles) = Range(deriveRolesFromFlags(derived.flags))
    /\ derived.by # "none" => derived.again = derived.roles

\* C19: whenever isArrivalsPayerCouncil is true, the roles returned by
\* deriveRolesFromFlags contain arrivalsPayerCouncil and not tellerCouncil.
C19_ArrivalsPayerRole ==
    (derived.by \in ByDeriveRolesFromFlags /\ "isArrivalsPayerCouncil" \in derived.flags)
      => /\ "arrivalsPayerCouncil" \in Range(derived.roles)
         /\ "tellerCouncil" \notin Range(derived.roles)

\* What the evaluation named by yields for a flag set
RolesBy(by, flags) ==
    IF by = "whitelisted" THEN deriveRolesFromFlags_Whitelisted(flags)
    ELSE deriveRolesFromFlags(flags)

\* C20: whenever isFisher is true, the roles returned by deriveRolesFromFlags
\* contain fisher together with every role the other true flags contribute;
\* when isFisher is false or missing, fisher is not returned.
C20_FisherRoleAdditive ==
    derived.by \in ByDeriveRolesFromFlags
      => IF "isFisher" \in derived.flags
           THEN /\ "fisher" \in Range(derived.roles)
                /\ Range(RolesBy(derived.by, derived.flags \ {"isFisher"}))
                     \subseteq Range(derived.roles)
           ELSE "fisher" \notin Range(derived.roles)

\* C21: each flag contributes zero or one role: for every flag set the number
\* of roles deriveRolesFromFlags returns equals the number of true flags, and
\* the result is the empty list when no flag is true.
C21_OneRolePerTrueFlag ==
    derived.by \in ByDeriveRolesFromFlags
      => /\ Len(derived.roles) = Cardinality(derived.flags)
         /\ derived.flags = {} => derived.roles = <<>>

\* ====================================================================
\* Notifications (SpecNotify): the four operations that dispatch an
\* e-mail, with the notification service succeeding, failing or throwing.
\* ====================================================================
NotifyWorker == 1

\* a@x.com is an established member; the driver is connected
InitNotify ==
    /\ store = [n \in NodeIds |->
                  IF n = 1 THEN MemberUser("a@x.com", hashPassword("Password#01"), {})
                  ELSE NoNode]
    /\ driver = "ready"
    /\ now = 0
    /\ ticks = 0
    /\ tokens = {}
    /\ lastResp = NoResp
    /\ fpCount = NoRun
    /\ pc = [p \in Procs |-> "idle"]
    /\ local = [p \in Procs |-> Idle]
    /\ lastVerify = NoVerify
    /\ schema = "none"
    /\ derived = NoDerivation
    /\ InitProcess

NextNotify ==
    \/ \E e \in EmailInputs : SignupBegin(NotifyWorker, e, "Password#02")
    \/ SignupInactiveCheck(NotifyWorker)
    \/ SignupDuplicateCheck(NotifyWorker)
    \/ SignupCreate(NotifyWorker)
    \/ SignupEnd(NotifyWorker)
    \/ \E e \in EmailInputs, c, n \in Passwords : ResetPassword(e, c, n)
    \/ \E e \in EmailInputs, o \in Origins : ForgotPassword(e, o)
    \/ \E t \in Presentable : DeleteAccount(t, TRUE, "none")

SpecNotify == InitNotify /\ [][NextNotify]_vars

\* What the caller sees of a response
Visible(resp) == [status |-> resp.status, body |-> resp.body]

\* C22: a notification dispatch that fails (returns false or throws) never
\* changes the outcome of its parent operation: signup, change-password,
\* account deletion and forgot-password answer exactly as they answer when
\* the dispatch succeeds.
C22_DispatchFailureSwallowed ==
    [][lastResp'.mail \in LambdaOutcomes \ {"ok"}
         => /\ \A e \in EmailInputs :
                 (SignupCreate(NotifyWorker) /\ local[NotifyWorker].email = e)
                   => Visible(lastResp')
                        = Visible(signupCreated(lastResp'.subject, e, "ok"))
            /\ \A e \in EmailInputs, c, n \in Passwords :
                 ResetPassword(e, c, n)
                   => Visible(lastResp')
                        = Visible(resetPasswordOutcome(e, c, n, lastResp'.subject, "ok"))
            /\ \A e \in EmailInputs, o \in Origins :
                 ForgotPassword(e, o)
                   => Visible(lastResp')
                        = Visible(forgotPasswordOutcome(e, o, lastResp'.subject, "ok"))
            /\ \A t \in Presentable :
                 DeleteAccount(t, TRUE, "none")
                   => Visible(lastResp')
                        = Visible(deleteAccountOutcome(t, TRUE, "none", "ok"))]_vars

\* an account was deleted and answered 200 although the notification
\* service threw while the confirmation e-mail was dispatched
C22_Witness ==
    /\ lastResp.op = "delete" /\ lastResp.dispatch /\ lastResp.mail = "throws"
    /\ lastResp.status = 200 /\ ~Exists(lastResp.subject)

\* C26: an identity whose password is unset becomes established through the
\* recovery flow: the token forgot-password issued for it, still valid, is
\* accepted by setup-password, which sets the password on the record whose
\* password is unset (so that a login with the new password then succeeds).
C26_RecoveryTokenSetsPassword ==
    [][\A t \in tokens, pw \in Passwords :
         (/\ SetupPassword(t, pw)
          /\ t.action = "password_reset" /\ Verifies(t)
          /\ Exists(t.userId) /\ store[t.userId].password = Null
          /\ lastResp'.cause # "init_failed")
           => /\ lastResp'.status = 200
              /\ store'[t.userId].password = hashPassword(pw)
              /\ \E rec \in LoginMatch(t.email) :
                   comparePassword(pw, store'[rec].password) = "true"]_vars

\* ====================================================================
\* Onboarding (SpecOnboard): a signup request followed by logins.
\* ====================================================================
InitOnboard ==
    /\ store \in SignupDirectories
    /\ driver = "ready"
    /\ now = 0
    /\ ticks = 0
    /\ tokens = {}
    /\ lastResp = NoResp
    /\ fpCount = NoRun
    /\ pc = [p \in Procs |-> "idle"]
    /\ local = [p \in Procs |-> Idle]
    /\ lastVerify = NoVerify
    /\ schema = "none"
    /\ derived = NoDerivation
    /\ InitProcess

NextOnboard ==
    \/ \E p \in Procs, e \in EmailInputs, pw \in Passwords : SignupBegin(p, e, pw)
    \/ \E p \in Procs : SignupInactiveCheck(p)
    \/ \E p \in Procs : SignupDuplicateCheck(p)
    \/ \E p \in Procs : SignupCreate(p)
    \/ \E p \in Procs : SignupEnd(p)
    \/ \E e \in EmailInputs, pw \in Passwords : Login(e, pw)

SpecOnboard == InitOnboard /\ [][NextOnboard]_vars

\* C27: after a signup with (email, password) has succeeded, a login with
\* the same e-mail and password succeeds immediately and returns tokens.
C27_LoginAfterSignup ==
    [][\A p \in Procs :
         (/\ pc[p] = "done" /\ local[p].resp.cause = "created"
          /\ Login(local[p].email, local[p].password))
           => /\ lastResp'.status = 200
              /\ lastResp'.issued # {}]_vars

\* ====================================================================
\* Label migration (SpecMigrate): scripts/migrate-members-to-users.ts run
\* against a directory that mixes unmigrated members, migrated members
\* and signup-created users.
\* ====================================================================
\* labels(m): the label list Cypher returns for a node
labels(node) ==
    LET has(l) == IF l \in node.labels THEN <<l>> ELSE <<>>
    IN  has("Member") \o has("User")

\* MATCH (m:Member)
MembersOf(dir) == {n \in NodeIds : dir[n] # NoNode /\ "Member" \in dir[n].labels}

\* MATCH (m:Member) WHERE NOT m:User
WithoutUserLabel(dir) == {n \in MembersOf(dir) : "User" \notin dir[n].labels}

getMigrationStats(dir) ==
    [mode |-> "none",
     totalMembers |-> Cardinality(MembersOf(dir)),
     membersWithUserLabel |-> Cardinality(MembersOf(dir) \ WithoutUserLabel(dir)),
     membersWithoutUserLabel |-> Cardinality(WithoutUserLabel(dir)),
     migrated |-> 0, errors |-> 0, threw |-> FALSE]

SetUserLabel_Skipped(node) == node

\* SET m:User
SetUserLabel(node) == [node EXCEPT !.labels = @ \cup {"User"}]

MigrationFailures == {"none", "run_throws"}

\* performMigration(session, dryRun): the directory and the statistics it
\* leaves behind
performMigration(dir, dryRun, fail) ==
    LET st == getMigrationStats(dir)
        targets == WithoutUserLabel(dir)
    IN  IF st.membersWithoutUserLabel = 0
          THEN [dir |-> dir,
                stats |-> [st EXCEPT !.mode = IF dryRun THEN "dry" ELSE "live"]]
        ELSE IF dryRun
          THEN [dir |-> dir, stats |-> [st EXCEPT !.mode = "dry"]]
        ELSE IF fail = "run_throws"
          THEN [dir |-> dir,
                stats |-> [st EXCEPT !.mode = "live", !.errors = 1, !.threw = TRUE]]
        ELSE [dir |-> [n \in NodeIds |->
                         IF n \in targets THEN SetUserLabel(dir[n]) ELSE dir[n]],
              stats |-> [st EXCEPT !.mode = "live",
                                   !.migrated = Cardinality(targets)]]

DbVars == <<initializingPromise, drivers, handle, got, retry>>
SecretVars == <<secretsCache, loaded>>

MigrateFrame ==
    UNCHANGED <<driver, now, ticks, tokens, lastResp, fpCount, pc, local,
                lastVerify, schema, derived, SecretVars>>

PerformMigration(dryRun, fail) ==
    /\ store' = performMigration(store, dryRun, fail).dir
    /\ stats' = performMigration(store, dryRun, fail).stats
    /\ UNCHANGED <<trace, request>>
    /\ UNCHANGED DbVars
    /\ MigrateFrame

\* An unmigrated member record as the church's directory holds it
LegacyMember(email, password) ==
    [MemberUser(email, password, {}) EXCEPT !.labels = {"Member"}]

\* The directory gains a member that has not been migrated yet
AddMember(n, email) ==
    /\ store[n] = NoNode
    /\ \A m \in NodeIds : store[m] # NoNode => store[m].email # email
    /\ store' = [store EXCEPT ![n] = LegacyMember(email, Null)]
    /\ UNCHANGED <<stats, trace, request>>
    /\ UNCHANGED DbVars
    /\ MigrateFrame

\* The directory loses a record
RemoveNode(n) ==
    /\ store[n] # NoNode
    /\ store' = [store EXCEPT ![n] = NoNode]
    /\ UNCHANGED <<stats, trace, request>>
    /\ UNCHANGED DbVars
    /\ MigrateFrame

MigrationDirectories ==
    {[n \in NodeIds |->
        IF n = 1 THEN a ELSE IF n = 2 THEN b ELSE NoNode] :
       a \in {LegacyMember("a@x.com", pw) : pw \in {Null, hashPassword("Password#01")}}
             \cup {MemberUser("a@x.com", Null, {})},
       b \in {NoNode, LegacyMember("b@x.com", Null),
              NewUser("b@x.com", "Password#02")}}

InitMigrate ==
    /\ store \in MigrationDirectories
    /\ driver = "ready"
    /\ now = 0
    /\ ticks = 0
    /\ tokens = {}
    /\ lastResp = NoResp
    /\ fpCount = NoRun
    /\ pc = [p \in Procs |-> "idle"]
    /\ local = [p \in Procs |-> Idle]
    /\ lastVerify = NoVerify
    /\ schema = "none"
    /\ derived = NoDerivation
    /\ InitProcess

NextMigrate ==
    \/ \E dryRun \in BOOLEAN, fail \in MigrationFailures : PerformMigration(dryRun, fail)
    \/ \E n \in NodeIds, e \in {"a@x.com", "b@x.com", "c@x.com"} : AddMember(n, e)
    \/ \E n \in NodeIds : RemoveNode(n)

SpecMigrate == InitMigrate /\ [][NextMigrate]_vars

CountOf(l, seq) == Cardinality({i \in DOMAIN seq : seq[i] = l})

\* C31: after a live run of performMigration that completed, every Member
\* node carries the User label, no node lists the User label twice, and a
\* second live run on the result migrates zero nodes and changes no node.
C31_MigrationCompleteIdempotent ==
    [][(/\ PerformMigration(FALSE, "none"))
         => LET second == performMigration(store', FALSE, "none")
            IN  /\ WithoutUserLabel(store') = {}
                /\ \A n \in NodeIds :
                     store'[n] # NoNode => CountOf("User", labels(store'[n])) <= 1
                /\ second.stats.migrated = 0
                /\ second.dir = store']_vars

C31_Witness ==
    /\ stats.mode = "live"
    /\ stats.migrated = 2
    /\ ~stats.threw
    /\ \E n \in NodeIds : store[n] # NoNode /\ store[n].labels = {"Member", "User"}

\* ====================================================================
\* The recovery request step by step (SpecRecovery): routes/forgotPassword.ts
\* suspends at each await, so the requests of two workers interleave.
\* ====================================================================
RecoveryFrame ==
    UNCHANGED <<store, driver, now, ticks, fpCount, local, lastVerify, schema,
                derived, stats, DbVars, SecretVars>>

Step(p, name) == [trace EXCEPT ![p] = Append(@, name)]
Steps(p, names) == [trace EXCEPT ![p] = @ \o names]

\* lines 43-98: the body is parsed, both rate limits are checked (a blocked
\* request waits and gets the generic answer) and the lookup is sent to the
\* directory
RecoveryBegin(p, email, ip) ==
    /\ pc[p] = "idle"
    /\ driver = "ready"
    /\ request' = [request EXCEPT ![p] = [NoRequest EXCEPT !.email = email, !.ip = ip]]
    /\ IF ~IsEmail(email)
         THEN /\ pc' = [pc EXCEPT ![p] = "done"]
              /\ trace' = Step(p, "respond")
              /\ lastResp' = Thrown("forgot", "validation",
                                    ZodError("Invalid email address"))
       ELSE IF ~checkRateLimit(<<"forgot", email>>, EmailMaxAttempts).allowed
         THEN /\ pc' = [pc EXCEPT ![p] = "done"]
              /\ trace' = Steps(p, <<"limit_email", "delay", "respond">>)
              /\ lastResp' = Response("forgot", "blocked_email", 200,
                                      GenericRecoveryBody, NoTokens)
       ELSE IF ~checkRateLimit(<<"forgot:ip", ip>>, IpMaxAttempts).allowed
         THEN /\ pc' = [pc EXCEPT ![p] = "done"]
              /\ trace' = Steps(p, <<"limit_email", "limit_ip", "delay", "respond">>)
              /\ lastResp' = Response("forgot", "blocked_ip", 200,
                                      GenericRecoveryBody, NoTokens)
       ELSE /\ pc' = [pc EXCEPT ![p] = "lookup"]
            /\ trace' = Steps(p, <<"limit_email", "limit_ip">>)
            /\ UNCHANGED lastResp
    /\ UNCHANGED tokens
    /\ RecoveryFrame

\* lines 98-102: MATCH (m:User {email: $email}) answers
RecoveryLookup(p) ==
    /\ pc[p] = "lookup"
    /\ \E rec \in Records(UserByEmail(request[p].email)) :
         request' = [request EXCEPT ![p].rec = rec]
    /\ pc' = [pc EXCEPT ![p] = "delay"]
    /\ trace' = Step(p, "lookup")
    /\ UNCHANGED <<tokens, lastResp>>
    /\ RecoveryFrame

AfterDelay_Always(rec) == "sign"

\* line 115: if (result.records.length > 0)
AfterDelay(rec) == IF rec = 0 THEN "respond" ELSE "sign"

\* line 109: await constantTimeDelay(150, 300)
RecoveryDelay(p) ==
    /\ pc[p] = "delay"
    /\ pc' = [pc EXCEPT ![p] = AfterDelay(request[p].rec)]
    /\ trace' = Step(p, "delay")
    /\ UNCHANGED <<tokens, lastResp, request>>
    /\ RecoveryFrame

resetTokenFor_Setup(userId, email, t) ==
    signJWT(userId, email, "password_setup", NoRoles, SetupTTL, t)

\* lines 122-129: signJWT({ userId, email, action: 'password_reset' }, '24h')
resetTokenFor(userId, email, t) ==
    signJWT(userId, email, "password_reset", NoRoles, RecoveryTTL, t)

\* lines 117-129: await signJWT(...)
RecoverySign(p) ==
    /\ pc[p] = "sign"
    /\ request' = [request EXCEPT ![p].resetToken =
                     resetTokenFor(request[p].rec, request[p].email, now)]
    /\ pc' = [pc EXCEPT ![p] = "dispatch"]
    /\ trace' = Step(p, "sign")
    /\ UNCHANGED <<tokens, lastResp>>
    /\ RecoveryFrame

\* lines 140-174: await sendPasswordSetupEmail(email, resetToken, firstName);
\* a false result and a thrown error are logged
RecoveryDispatch(p) ==
    /\ pc[p] = "dispatch"
    /\ \E invoke \in LambdaOutcomes :
         /\ request' = [request EXCEPT ![p].mail = invoke,
                                       ![p].emailSent = sendEmail(invoke)]
         /\ tokens' \in Held(IF sendEmail(invoke) THEN {request[p].resetToken}
                                                  ELSE NoTokens)
    /\ pc' = [pc EXCEPT ![p] = "respond"]
    /\ trace' = Step(p, "dispatch")
    /\ UNCHANGED lastResp
    /\ RecoveryFrame

\* lines 187-190: the generic answer
RecoveryRespond(p) ==
    /\ pc[p] = "respond"
    /\ pc' = [pc EXCEPT ![p] = "done"]
    /\ trace' = Step(p, "respond")
    /\ lastResp' =
         [Response("forgot",
                   IF request[p].rec = 0 THEN "unknown_email" ELSE "known_email",
                   200, GenericRecoveryBody,
                   IF request[p].emailSent THEN {request[p].resetToken} ELSE NoTokens)
            EXCEPT !.lookup = TRUE, !.subject = request[p].rec,
                   !.dispatch = request[p].mail # "none",
                   !.mail = request[p].mail]
    /\ UNCHANGED <<tokens, request>>
    /\ RecoveryFrame

InitRecovery ==
    /\ store \in InitialDirectories
    /\ driver = "ready"
    /\ now = 0
    /\ ticks = 0
    /\ tokens = {}
    /\ lastResp = NoResp
    /\ fpCount = NoRun
    /\ pc = [p \in Procs |-> "idle"]
    /\ local = [p \in Procs |-> Idle]
    /\ lastVerify = NoVerify
    /\ schema = "none"
    /\ derived = NoDerivation
    /\ InitProcess

NextRecovery ==
    \/ \E p \in Procs, e \in EmailInputs, ip \in Origins : RecoveryBegin(p, e, ip)
    \/ \E p \in Procs : RecoveryLookup(p)
    \/ \E p \in Procs : RecoveryDelay(p)
    \/ \E p \in Procs : RecoverySign(p)
    \/ \E p \in Procs : RecoveryDispatch(p)
    \/ \E p \in Procs : RecoveryRespond(p)

SpecRecovery == InitRecovery /\ [][NextRecovery]_vars

IsPrefix(s, t) == Len(s) <= Len(t) /\ \A i \in 1..Len(s) : s[i] = t[i]

KnownOrder ==
    <<"limit_email", "limit_ip", "lookup", "delay", "sign", "dispatch", "respond">>
UnknownOrder == <<"limit_email", "limit_ip", "lookup", "delay", "respond">>

DeleteFrame ==
    UNCHANGED <<driver, now, ticks, tokens, fpCount, lastVerify, schema,
                derived, stats, DbVars, SecretVars>>

TxFailure == NamedError("Neo4jError", "Transaction failed")

\* lines 162-165: a step of the transaction threw: tx.rollback(), rethrow
TxRollback(p) ==
    /\ pc' = [pc EXCEPT ![p] = "done"]
    /\ trace' = Steps(p, <<"rollback", "respond">>)
    /\ lastResp' = [Thrown("delete", "tx_failed", TxFailure)
                      EXCEPT !.presented = local[p].token]
    /\ UNCHANGED <<store, request, local>>

\* lines 115-126: the body is parsed, the token verified, the transaction begun
DeleteBegin(p, token, confirmDeletion) ==
    /\ pc[p] = "idle"
    /\ driver = "ready"
    /\ local' = [local EXCEPT ![p] = [Idle EXCEPT !.token = token]]
    /\ LET decoded == Awaited(verifyJWT(token, now)) IN
       IF ~token.wellFormed \/ ~confirmDeletion
         THEN /\ pc' = [pc EXCEPT ![p] = "done"]
              /\ trace' = Step(p, "respond")
              /\ lastResp' = [Thrown("delete", "validation",
                                     ZodError("You must confirm account deletion"))
                                EXCEPT !.presented = token]
       ELSE IF ~decoded.settled.ok
         THEN /\ pc' = [pc EXCEPT ![p] = "done"]
              /\ trace' = Step(p, "respond")
              /\ lastResp' = [Thrown("delete", "bad_token",
                                     NamedError(decoded.settled.name,
                                                decoded.settled.message))
                                EXCEPT !.presented = token]
       ELSE /\ pc' = [pc EXCEPT ![p] = "tx_read"]
            /\ trace' = Step(p, "begin")
            /\ UNCHANGED lastResp
    /\ UNCHANGED <<store, request>>
    /\ DeleteFrame

AfterRead_Answer == "answer"

\* lines 130-142: the DETACH DELETE follows the read
AfterRead == "tx_delete"

\* lines 130-138: MATCH (u:Member {id: $userId}) RETURN u.email
DeleteRead(p, fail) ==
    /\ pc[p] = "tx_read"
    /\ IF fail
         THEN TxRollback(p)
         ELSE /\ request' = [request EXCEPT ![p] =
                   [NoRequest EXCEPT !.email =
                      IF DeleteMatch(local[p].token.userId) # {}
                        THEN store[local[p].token.userId].email ELSE "-"]]
              /\ pc' = [pc EXCEPT ![p] = AfterRead]
              /\ trace' = Step(p, "read")
              /\ UNCHANGED <<store, lastResp, local>>
    /\ DeleteFrame

\* lines 142-146: MATCH (u:Member {id: $userId}) DETACH DELETE u, pending
\* until the commit
DeleteRun(p, fail) ==
    /\ pc[p] = "tx_delete"
    /\ IF fail
         THEN TxRollback(p)
         ELSE /\ request' = [request EXCEPT ![p].rec =
                   IF DeleteMatch(local[p].token.userId) # {}
                     THEN local[p].token.userId ELSE 0]
              /\ pc' = [pc EXCEPT ![p] = "tx_commit"]
              /\ trace' = Step(p, "delete")
              /\ UNCHANGED <<store, lastResp, local>>
    /\ DeleteFrame

\* line 148: await tx.commit()
DeleteCommit(p, fail) ==
    /\ pc[p] = "tx_commit"
    /\ IF fail
         THEN TxRollback(p)
         ELSE /\ store' = [n \in NodeIds |->
                             IF n = request[p].rec THEN NoNode ELSE store[n]]
              /\ pc' = [pc EXCEPT ![p] = "answer"]
              /\ trace' = Step(p, "commit")
              /\ UNCHANGED <<request, lastResp, local>>
    /\ DeleteFrame

\* lines 151-161: the notification goes to the e-mail read, if any, without
\* being awaited; then 200 is answered
DeleteAnswer(p) ==
    /\ pc[p] = "answer"
    /\ pc' = [pc EXCEPT ![p] = "done"]
    /\ LET userId == local[p].token.userId
           userEmail == request[p].email
           done == [Response("delete", "deleted", 200,
                             [message |-> "Account deleted successfully",
                              accountId |-> userId], NoTokens)
                      EXCEPT !.subject = userId, !.lookup = TRUE,
                             !.presented = local[p].token]
       IN  IF userEmail # "-"
             THEN \E invoke \in LambdaOutcomes :
                    /\ request' = [request EXCEPT ![p].to = userEmail,
                                                  ![p].mail = invoke]
                    /\ trace' = Steps(p, <<"dispatch", "respond">>)
                    /\ lastResp' = FireAndForget(done, invoke)
             ELSE /\ trace' = Step(p, "respond")
                  /\ lastResp' = done
                  /\ UNCHANGED request
    /\ UNCHANGED <<store, local>>
    /\ DeleteFrame

InitDelete ==
    /\ store \in InitialDirectories
    /\ driver = "ready"
    /\ now = 0
    /\ ticks = 0
    /\ tokens = {}
    /\ lastResp = NoResp
    /\ fpCount = NoRun
    /\ pc = [p \in Procs |-> "idle"]
    /\ local = [p \in Procs |-> Idle]
    /\ lastVerify = NoVerify
    /\ schema = "none"
    /\ derived = NoDerivation
    /\ InitProcess

NextDelete ==
    \/ \E e \in Emails, pw \in Passwords : Login(e, pw)
    \/ \E p \in Procs, t \in Presentable, c \in BOOLEAN : DeleteBegin(p, t, c)
    \/ \E p \in Procs, fail \in BOOLEAN : DeleteRead(p, fail)
    \/ \E p \in Procs, fail \in BOOLEAN : DeleteRun(p, fail)
    \/ \E p \in Procs, fail \in BOOLEAN : DeleteCommit(p, fail)
    \/ \E p \in Procs : DeleteAnswer(p)

SpecDelete == InitDelete /\ [][NextDelete]_vars

Position(l, seq) ==
    IF CountOf(l, seq) = 0 THEN 0
    ELSE CHOOSE i \in DOMAIN seq : seq[i] = l /\ \A j \in 1..(i - 1) : seq[j] # l

\* C34: in a deletion the e-mail is read before the record is deleted, both
\* in the transaction that is then committed; the confirmation is dispatched
\* only after that commit and only to the e-mail the transaction read; the
\* directory changes only at the commit.
C34_ReadDeleteCommitDispatch ==
    \A p \in Procs :
      LET tr == trace[p] IN
      /\ CountOf("delete", tr) > 0
           => /\ CountOf("read", tr) = 1
              /\ Position("read", tr) < Position("delete", tr)
      /\ CountOf("commit", tr) > 0
           => /\ CountOf("delete", tr) = 1
              /\ Position("delete", tr) < Position("commit", tr)
              /\ CountOf("rollback", tr) = 0
      /\ CountOf("dispatch", tr) > 0
           => /\ CountOf("commit", tr) = 1
              /\ Position("commit", tr) < Position("dispatch", tr)
              /\ request[p].to = request[p].email
              /\ request[p].email \in Emails
      /\ request[p].to # "-" => CountOf("dispatch", tr) = 1
      /\ (request[p].rec # 0 /\ CountOf("commit", tr) = 0)
           => \/ Exists(request[p].rec)
              \/ \E q \in Procs \ {p} :
                   request[q].rec = request[p].rec /\ CountOf("commit", trace[q]) = 1

\* a deletion was committed and its confirmation dispatched while the other
\* worker's transaction was rolled back
C34_Witness ==
    \E p, q \in Procs :
      /\ pc[p] = "done" /\ CountOf("dispatch", trace[p]) = 1
      /\ request[p].to = "a@x.com" /\ ~Exists(1)
      /\ CountOf("rollback", trace[q]) = 1

\* ====================================================================
\* Database initialisation (SpecInit): concurrent calls of initializeDB of
\* db/neo4j.ts. pc[p] is where caller p stands: "idle", the initialiser at
\* "secrets", "verify" or "closing", a caller "waiting" on
\* initializingPromise, or "returned".
\* ====================================================================
\* RETRY_CONFIG.maxRetries
MaxRetries == 3

InitFrame ==
    UNCHANGED <<store, now, ticks, tokens, lastResp, fpCount, local, lastVerify,
                schema, derived, stats, trace, request, SecretVars>>

Created == {d \in DriverIds : drivers[d] # "none"}
Waiting == {q \in Procs : pc[q] = "waiting"}

\* initializingPromise settles with result; finally { initializingPromise = null }
Settle(p, result) ==
    /\ initializingPromise' = "null"
    /\ got' = [q \in Procs |-> IF q = p \/ q \in Waiting THEN result ELSE got[q]]
    /\ pc' = [q \in Procs |-> IF q = p \/ q \in Waiting THEN "returned" ELSE pc[q]]

\* line 42: if (driver)
ExistingDriver == driver # "null"

\* lines 41-53, 102: the call up to its first await
InitializeDB(p) ==
    /\ pc[p] \in {"idle", "returned"}
    /\ IF ExistingDriver
         THEN /\ got' = [got EXCEPT ![p] = handle]
              /\ pc' = [pc EXCEPT ![p] = "returned"]
              /\ UNCHANGED initializingPromise
       ELSE IF initializingPromise # "null"
         THEN /\ got' = [got EXCEPT ![p] = 0]
              /\ pc' = [pc EXCEPT ![p] = "waiting"]
              /\ UNCHANGED initializingPromise
       ELSE /\ Cardinality(Created) < MaxDrivers
            /\ initializingPromise' = "pending"
            /\ got' = [got EXCEPT ![p] = 0]
            /\ pc' = [pc EXCEPT ![p] = "secrets"]
    /\ UNCHANGED <<driver, drivers, handle, retry>>
    /\ InitFrame

\* lines 53-68: the secrets arrive and neo4j.driver(...) is assigned to
\* driver, or getSecret throws (lines 88-99 with driver still null)
CreateDriver(p, ok) ==
    /\ pc[p] = "secrets"
    /\ IF ok
         THEN LET d == Cardinality(Created) + 1 IN
              /\ drivers' = [drivers EXCEPT ![d] = "open"]
              /\ handle' = d
              /\ driver' = "ready"
              /\ retry' = 0
              /\ pc' = [pc EXCEPT ![p] = "verify"]
              /\ UNCHANGED <<initializingPromise, got>>
         ELSE /\ Settle(p, -1)
              /\ UNCHANGED <<driver, drivers, handle, retry>>
    /\ InitFrame

\* lines 13-39, 71-87: retryWithBackoff(verifyAuthentication); the last
\* failure leads to the catch block, which awaits driver.close()
VerifyConnection(p, ok) ==
    /\ pc[p] = "verify"
    /\ IF ok
         THEN /\ drivers' = [drivers EXCEPT ![handle] = "verified"]
              /\ Settle(p, handle)
              /\ UNCHANGED <<driver, handle, retry>>
       ELSE IF retry + 1 < MaxRetries
         THEN /\ retry' = retry + 1
              /\ UNCHANGED <<driver, drivers, handle, initializingPromise, got, pc>>
       ELSE /\ drivers' = [drivers EXCEPT ![handle] = "closed"]
            /\ pc' = [pc EXCEPT ![p] = "closing"]
            /\ UNCHANGED <<driver, handle, retry, initializingPromise, got>>
    /\ InitFrame

\* lines 91-99: driver.close() has ended; driver = null; throw error
CloseFailedDriver(p) ==
    /\ pc[p] = "closing"
    /\ driver' = "null"
    /\ handle' = 0
    /\ Settle(p, -1)
    /\ UNCHANGED <<drivers, retry>>
    /\ InitFrame

InitDb ==
    /\ store \in InitialDirectories
    /\ InitCommon

NextInit ==
    \/ \E p \in Procs : InitializeDB(p)
    \/ \E p \in Procs, ok \in BOOLEAN : CreateDriver(p, ok)
    \/ \E p \in Procs, ok \in BOOLEAN : VerifyConnection(p, ok)
    \/ \E p \in Procs : CloseFailedDriver(p)

SpecInit == InitDb /\ [][NextInit]_vars

\* C35: under every interleaving of initializeDB calls at most one driver is
\* in use, every caller that got a driver got the same one and it is not a
\* failed or closed one; once an attempt has failed, driver is null and
\* initializingPromise is cleared.
C35_OneDriverForAllCallers ==
    /\ Cardinality({d \in DriverIds : drivers[d] \in {"open", "verified"}}) <= 1
    /\ \A p, q \in Procs : (got[p] > 0 /\ got[q] > 0) => got[p] = got[q]
    /\ \A p \in Procs : got[p] > 0 => drivers[got[p]] # "closed"
    /\ (initializingPromise = "null" /\ driver # "null")
         => drivers[handle] = "verified"

\* ====================================================================
\* Roles at login (SpecGrants): logins and refreshes of a member whose
\* relationships in the directory change.
\* ====================================================================
\* Relationships another service grants: (m)-[:DOES_ARRIVALS_FOR]->
\* (:Governorship), (m)-[:IS_ADMIN_FOR]->(:Governorship) and
\* (m)-[:IS_ARRIVALS_PAYER_FOR]->(:Council)
GrantedFlags ==
    {"isArrivalsAdminForGovernorship", "isAdminForGovernorship",
     "isArrivalsPayerCouncil"}

InitGrants ==
    /\ store \in {d \in InitialDirectories : d[1].password # Null}
    /\ driver = "ready"
    /\ now = 0
    /\ ticks = 0
    /\ tokens = {}
    /\ lastResp = NoResp
    /\ fpCount = NoRun
    /\ pc = [p \in Procs |-> "idle"]
    /\ local = [p \in Procs |-> Idle]
    /\ lastVerify = NoVerify
    /\ schema = "none"
    /\ derived = NoDerivation
    /\ InitProcess

NextGrants ==
    \/ \E e \in Emails, p \in Passwords : Login(e, p)
    \/ \E t \in Presentable : RefreshToken(t)
    \/ \E f \in GrantedFlags : ChangeFlag(1, f)

SpecGrants == InitGrants /\ [][NextGrants]_vars

\* The flags deriveRolesFromFlags reads
FlagsRead == {RoleTable[i][1] : i \in 1 .. Len(RoleTable)}

\* C36: every flag deriveRolesFromFlags reads is among the flags the query
\* of login returns, so a successful login of a member for whom such a flag
\* holds in the directory answers with the role of that flag (for example
\* arrivalsAdminGovernorship).
C36_EveryReadFlagSupplied ==
    [][\A e \in Emails, p \in Passwords :
         (lastResp'.cause = "authenticated" /\ Login(e, p))
           => \A f \in FlagsRead \cap store[lastResp'.subject].rels :
                /\ f \in FlagsOf(lastResp'.subject)
                /\ \A i \in 1 .. Len(RoleTable) :
                     RoleTable[i][1] = f
                       => RoleTable[i][2] \in Range(lastResp'.body.user.roles)]_vars

\* C37: a refresh that answers 200 with a new access token was presented a
\* token issued as a refresh token (7-day lifetime, no action); an access
\* token or a password-reset/setup token presented as refreshToken is
\* rejected.
C37_RefreshNeedsRefreshToken ==
    (lastResp.op = "refresh" /\ lastResp.status = 200)
      => IsRefreshToken(lastResp.presented)

\* C38 (Spec): in the Express app a route handler gets its session only
\* after initializeDB has completed, so no request is answered 503
\* 'Service initializing, please retry' because getSession found the driver
\* null.
C38_SessionAfterInitialize ==
    ~(/\ lastResp.cause = "no_session"
      /\ lastResp.status = 503
      /\ lastResp.body = [error |-> "Service initializing, please retry",
                          requestId |-> RequestId])

\* C39 (SpecNotify): whenever delete-account answers 'Account deleted
\* successfully' for the user id of the token, an identity with that id was
\* in the directory before the request and none with that id is in it
\* afterwards, whichever labels the identity carries.
C39_DeletedMeansGone ==
    [][\A t \in Presentable :
         (/\ lastResp'.cause = "deleted"
          /\ lastResp'.body.message = "Account deleted successfully"
          /\ DeleteAccount(t, TRUE, "none"))
           => /\ store[t.userId] # NoNode
              /\ store'[t.userId] = NoNode]_vars

\* ====================================================================
\* Secrets (SpecSecrets): calls of loadSecrets and getSecret of
\* utils/secrets.ts against a secret whose content may be incomplete.
\* ====================================================================
\* line 61: requiredSecrets
RequiredSecrets == {"JWT_SECRET", "PEPPER", "NEO4J_URI", "NEO4J_USER", "NEO4J_PASSWORD"}

\* What Secrets Manager answers: no SecretString, or a JSON object with
\* values for some of the keys
SecretResponses ==
    {[SecretString |-> FALSE, keys |-> {}]}
      \cup {[SecretString |-> TRUE, keys |-> ks] : ks \in SUBSET RequiredSecrets}

Resolved(call, keys) == [call |-> call, ok |-> TRUE, keys |-> keys, message |-> "-"]
Rejected(call, message) == [call |-> call, ok |-> FALSE, keys |-> {}, message |-> message]

\* lines 30-77: the cache after the call and how the call ended
loadSecrets(cache, response) ==
    IF cache.set
      THEN [cache |-> cache, result |-> Resolved("loadSecrets", cache.keys)]
    ELSE IF ~response.SecretString
      THEN [cache |-> cache,
            result |-> Rejected("loadSecrets", "SecretString not found in response")]
    ELSE
      LET parsed == [set |-> TRUE, keys |-> response.keys] IN
      IF RequiredSecrets \subseteq parsed.keys
        THEN [cache |-> parsed, result |-> Resolved("loadSecrets", parsed.keys)]
        ELSE [cache |-> parsed,
              result |-> Rejected("loadSecrets", "Missing required secret")]

\* lines 84-91
getSecret(cache, response, key) ==
    LET load == loadSecrets(cache, response) IN
    IF ~load.result.ok
      THEN [cache |-> load.cache,
            result |-> [load.result EXCEPT !.call = "getSecret"]]
    ELSE IF key \notin load.result.keys
      THEN [cache |-> load.cache, result |-> Rejected("getSecret", "Secret not found")]
    ELSE [cache |-> load.cache, result |-> Resolved("getSecret", {key})]

SecretsFrame ==
    UNCHANGED <<store, driver, now, ticks, tokens, lastResp, fpCount, pc, local,
                lastVerify, schema, derived, stats, trace, request, DbVars>>

LoadSecrets(response) ==
    /\ secretsCache' = loadSecrets(secretsCache, response).cache
    /\ loaded' = loadSecrets(secretsCache, response).result
    /\ SecretsFrame

GetSecret(response, key) ==
    /\ secretsCache' = getSecret(secretsCache, response, key).cache
    /\ loaded' = getSecret(secretsCache, response, key).result
    /\ SecretsFrame

InitSecrets ==
    /\ store \in InitialDirectories
    /\ InitCommon

NextSecrets ==
    \/ \E r \in SecretResponses : LoadSecrets(r)
    \/ \E r \in SecretResponses, k \in RequiredSecrets : GetSecret(r, k)

SpecSecrets == InitSecrets /\ [][NextSecrets]_vars

\* C40: a loadSecrets call returns only an object in which JWT_SECRET,
\* PEPPER, NEO4J_URI, NEO4J_USER and NEO4J_PASSWORD are all present, also
\* when an earlier load failed validation.
C40_LoadedSecretsComplete ==
    (loaded.call = "loadSecrets" /\ loaded.ok)
      => RequiredSecrets \subseteq loaded.keys

====
